---- MODULE Spec2Model ----
(***************************************************************************)
(* Model of the categorical feature hashing and model metadata lifecycle   *)
(* of the XGBoost decision tree toolkit: HashEncoder, FeatureAnalyzer,     *)
(* Trainer (loadRaw / train / save) and Model (load / transform / predict). *)
(*                                                                         *)
(* JavaScript strings are sequences of character codes, so that trimming,  *)
(* number formatting, number parsing and MurmurHash3 are computed the way  *)
(* the code computes them.  32-bit words are pairs <<hi, lo>> of 16-bit    *)
(* halves, because the checker's integers are 32-bit signed.               *)
(***************************************************************************)
EXTENDS Integers, Sequences, FiniteSets, TLC

VARIABLES
  \* ---- HashEncoder instance under test ----
  encoder,      \* the constructed HashEncoder (its three readonly fields) or NoEncoder
  ctorThrew,    \* TRUE when the last constructor call threw
  lastIn,       \* argument of the last encode() call on the instance
  lastOut,      \* vector returned by the last encode() call
  prevIn,       \* argument of the encode() call before the last one
  prevOut,      \* vector returned by that call
  \* ---- static sizing helpers ----
  sbK,          \* uniqueValues passed to suggestBucketCount / calculateBucketCount
  sbRate,       \* _maxCollisionRate passed to suggestBucketCount (percent)
  sbOut,        \* result of HashEncoder.suggestBucketCount
  cbOut,        \* result of FeatureAnalyzer.calculateBucketCount
  \* ---- static collision estimate ----
  estK, estN, estP,     \* last estimateCollisionProbability call and its result
  estPrevK, estPrevN, estPrevP,  \* the call before it
  \* ---- FeatureAnalyzer.analyzeFeatures call ----
  faData, faCat, faNum, faTarget,  \* arguments of the last analyzeFeatures call
  faResult,     \* its outcome: NoAnalysis, a thrown error, or the FeatureAnalysisResult
  \* ---- Trainer, the model directory and the loaded Model ----
  tDataset,     \* Trainer.dataset (the record array) or NoData
  tEncoders,    \* Trainer.encoders: <<featureName, encoder>> entries in Map insertion order
  tClasses,     \* Trainer.classes
  tIsMultiClass,\* Trainer.isMultiClass
  tModel,       \* Trainer.model: NoModel or the XGBoost instance
  tIsOneVsRest, \* Trainer.isOneVsRest
  tOvrModels,   \* Trainer.oneVsRestModels: sequence of <<className, model>> entries
  tTrainedAt,   \* Trainer.trainedAt is set
  tMetrics,     \* Trainer.trainingMetrics: NoMetrics or the ModelMetrics
  tError,       \* outcome of the last Trainer call: "none" or the error thrown
  trainedRecords, \* records passed to transformRecords by the last successful train()
  trainedX,     \* the feature vectors transformRecords built for them
  tFresh,       \* TRUE while nothing was called on the Trainer since that train()
  disk,         \* the model directory: NoDir or the files save() wrote
  mModel,       \* the Model instance returned by Model.load, or NoLoadedModel
  mError,       \* the error the last Model.load call threw, or "none"
  mIn,          \* record passed to the last Model.transform call
  mOut,         \* feature vector it returned
  \* ---- task type, targets and predictions ----
  tConfig,      \* the TrainerConfig: taskType and xgbParams.objective ("" when not given)
  xgbScore,     \* what predictSingle / predictBatch of each stored tree model returns
  tTargetNormalization, \* Trainer.targetNormalization: NoNormalization or {min, max}
  trainedY,     \* the targets transformTargets built in the last successful train()
  tPredictions, \* the PredictionResults evaluateModel got in the last successful train()
  mPred,        \* outcome of the last Model.predict / predictValue call
  \* ---- training configuration and cross-validation ----
  trainedConfig,\* the TrainingConfig passed to the last successful train()
  cvFolds,      \* the folds performCrossValidation cut in that train()
  \* ---- a save() in progress ----
  savePc,       \* the statement of save() that runs next: a SaveStep, or "idle"
  saveQueue     \* the oneVsRestModels entries its loop has not written yet

encVars  == <<encoder, ctorThrew, lastIn, lastOut, prevIn, prevOut>>
sizeVars == <<sbK, sbRate, sbOut, cbOut>>
estVars  == <<estK, estN, estP, estPrevK, estPrevN, estPrevP>>
faVars   == <<faData, faCat, faNum, faTarget, faResult>>
trVars   == <<tDataset, tEncoders, tClasses, tIsMultiClass, tModel, tIsOneVsRest,
              tOvrModels, tTrainedAt, tMetrics, tError, trainedRecords, trainedX,
              tFresh, disk, mModel, mError, mIn, mOut,
              tConfig, xgbScore, tTargetNormalization, trainedY,
              tPredictions, mPred, trainedConfig, cvFolds, savePc, saveQueue>>
vars     == <<encVars, sizeVars, estVars, faVars, trVars>>

(***************************************************************************)
(* Bounds of the model.                                                    *)
(***************************************************************************)
MaxBucketCount == 10   \* HashEncoder instances are built with bucketCount up to this
MaxSizeK       == 1003 \* uniqueValues passed to the sizing helpers: 0..MaxSizeK
MaxEstK        == 12   \* uniqueValues passed to estimateCollisionProbability
MaxEstN        == 10   \* bucketCount passed to estimateCollisionProbability
MaxFaRows      == 2    \* records per dataset passed to analyzeFeatures
MaxRows        == 2    \* records per dataset loaded into the Trainer
MaxClasses     == 3    \* class labels of a dataset, hence fit() calls of one train()

(***************************************************************************)
(* JavaScript values (RawDataRecord's value type).                         *)
(***************************************************************************)
StrV(s)  == [t |-> "string", s |-> s, n |-> 0]
NumV(n)  == [t |-> "number", s |-> <<>>, n |-> n]
NaNV     == [t |-> "NaN", s |-> <<>>, n |-> 0]
InfV     == [t |-> "Infinity", s |-> <<>>, n |-> 0]
NegInfV  == [t |-> "-Infinity", s |-> <<>>, n |-> 0]
TrueV    == [t |-> "true", s |-> <<>>, n |-> 0]
FalseV   == [t |-> "false", s |-> <<>>, n |-> 0]
NullV    == [t |-> "null", s |-> <<>>, n |-> 0]
UndefV   == [t |-> "undefined", s |-> <<>>, n |-> 0]
Absent   == [t |-> "absent", s |-> <<>>, n |-> 0]   \* the key is not in the record

\* typeof value
TypeOf(v) ==
  CASE v.t \in {"number", "NaN", "Infinity", "-Infinity"} -> "number"
    [] v.t = "string" -> "string"
    [] v.t \in {"true", "false"} -> "boolean"
    [] v.t = "null" -> "object"
    [] OTHER -> "undefined"

\* value === null || value === undefined
IsNullish(v) == v.t \in {"null", "undefined", "absent"}

\* string literals of the source, as character codes
sNULL    == <<95,95,78,85,76,76,95,95>>                      \* "__NULL__"
sTRUE    == <<95,95,84,82,85,69,95,95>>                      \* "__TRUE__"
sFALSE   == <<95,95,70,65,76,83,69,95,95>>                   \* "__FALSE__"
sNAN     == <<95,95,78,97,78,95,95>>                         \* "__NaN__"
sINF     == <<95,95,73,78,70,73,78,73,84,89,95,95>>          \* "__INFINITY__"
sNEGINF  == <<95,95,78,69,71,65,84,73,86,69,95,73,78,70,73,78,73,84,89,95,95>>
sEMPTY   == <<95,95,69,77,80,84,89,95,95>>                   \* "__EMPTY__"

\* white space and line terminators removed by String.prototype.trim (Latin-1 part)
WhiteSpace == {9, 10, 11, 12, 13, 32, 160}

RECURSIVE TrimStart(_)
TrimStart(s) ==
  IF s = <<>> THEN s
  ELSE IF Head(s) \in WhiteSpace THEN TrimStart(Tail(s)) ELSE s

RECURSIVE TrimEnd(_)
TrimEnd(s) ==
  IF s = <<>> THEN s
  ELSE IF s[Len(s)] \in WhiteSpace THEN TrimEnd(SubSeq(s, 1, Len(s) - 1)) ELSE s

\* String.prototype.trim
Trim(s) == TrimEnd(TrimStart(s))

\* decimal digits of a natural number
RECURSIVE Digits(_)
Digits(n) == IF n < 10 THEN <<48 + n>> ELSE Digits(n \div 10) \o <<48 + (n % 10)>>

\* Number.prototype.toString for a finite integer
NumberToString(n) == IF n < 0 THEN <<45>> \o Digits(0 - n) ELSE Digits(n)

\* String(value) for a non-nullish value
ToStringJS(v) ==
  CASE v.t = "string"    -> v.s
    [] v.t = "number"    -> NumberToString(v.n)
    [] v.t = "NaN"       -> <<78,97,78>>
    [] v.t = "Infinity"  -> <<73,110,102,105,110,105,116,121>>
    [] v.t = "-Infinity" -> <<45,73,110,102,105,110,105,116,121>>
    [] v.t = "true"      -> <<116,114,117,101>>
    [] v.t = "false"     -> <<102,97,108,115,101>>
    [] v.t = "null"      -> <<110,117,108,108>>
    [] OTHER             -> <<117,110,100,101,102,105,110,101,100>>

(***************************************************************************)
(* MurmurHash3 x86 32-bit, as murmur3.x86.hash32(key, seed) computes it.   *)
(***************************************************************************)
RECURSIVE XorBits(_, _, _)
XorBits(a, b, bits) ==
  IF bits = 0 THEN 0
  ELSE ((a + b) % 2) + 2 * XorBits(a \div 2, b \div 2, bits - 1)

Xor32(a, b) == <<XorBits(a[1], b[1], 16), XorBits(a[2], b[2], 16)>>

\* (x * y) mod 2^16 for 16-bit x, y, without leaving 31 bits
MulLow16(x, y) == ((x * (y % 256)) + ((x * (y \div 256)) % 256) * 256) % 65536

\* (x * y) div 2^16 for 16-bit x, y
MulHigh16(x, y) == (((x * (y % 256)) \div 256) + x * (y \div 256)) \div 256

\* 32-bit product modulo 2^32 (_x86Multiply)
Mul32(a, b) ==
  <<(MulHigh16(a[2], b[2]) + MulLow16(a[1], b[2]) + MulLow16(a[2], b[1])) % 65536,
    MulLow16(a[2], b[2])>>

Pow2(r) == CASE r = 3 -> 8 [] r = 13 -> 8192 [] r = 15 -> 32768 [] r = 1 -> 2

\* rotate left by r, 0 < r < 16 (_x86Rotl)
Rotl32(a, r) ==
  <<((a[1] % Pow2(16 - r)) * Pow2(r)) + (a[2] \div Pow2(16 - r)),
    ((a[2] % Pow2(16 - r)) * Pow2(r)) + (a[1] \div Pow2(16 - r))>>

\* unsigned shift right by 16 and by 13
Shr16(a) == <<0, a[1]>>
Shr13(a) == <<a[1] \div 8192, ((a[1] % 8192) * 8) + (a[2] \div 8192)>>

Add32(a, b) ==
  <<(a[1] + b[1] + ((a[2] + b[2]) \div 65536)) % 65536, (a[2] + b[2]) % 65536>>

MurmurC1 == <<52382, 11601>>   \* 0xcc9e2d51
MurmurC2 == <<7047, 13715>>    \* 0x1b873593
MurmurN  == <<58964, 27492>>   \* 0xe6546b64
FmixC1   == <<34283, 51819>>   \* 0x85ebca6b
FmixC2   == <<49842, 44597>>   \* 0xc2b2ae35

\* k1 = multiply(k1, c1); k1 = rotl(k1, 15); k1 = multiply(k1, c2)
MixK(k) == Mul32(Rotl32(Mul32(k, MurmurC1), 15), MurmurC2)

\* character code masked to a byte; 0 past the end of the key
ByteAt(key, i) == IF i <= Len(key) THEN key[i] % 256 ELSE 0

\* the four-byte blocks of the key, from position i (1-based)
RECURSIVE MurmurBody(_, _, _)
MurmurBody(key, i, h) ==
  IF i + 3 > Len(key) THEN h
  ELSE LET k  == <<ByteAt(key, i + 3) * 256 + ByteAt(key, i + 2),
                   ByteAt(key, i + 1) * 256 + ByteAt(key, i)>>
           h1 == Rotl32(Xor32(h, MixK(k)), 13)
           h2 == Add32(Mul32(h1, <<0, 5>>), MurmurN)
       IN  IF h2[1] >= 0 THEN MurmurBody(key, i + 4, h2) ELSE h2

\* the up to three remaining bytes
MurmurTail(key, h) ==
  LET rem == Len(key) % 4
      i   == Len(key) - rem + 1
      k   == <<IF rem = 3 THEN ByteAt(key, i + 2) ELSE 0,
               (IF rem >= 2 THEN ByteAt(key, i + 1) * 256 ELSE 0) + ByteAt(key, i)>>
  IN  IF rem = 0 THEN h ELSE Xor32(h, MixK(k))

Fmix(h) ==
  LET h1 == Xor32(h, Shr16(h))
      h2 == Mul32(h1, FmixC1)
      h3 == Xor32(h2, Shr13(h2))
      h4 == Mul32(h3, FmixC2)
  IN  Xor32(h4, Shr16(h4))

\* murmur3.x86.hash32(key, seed): an unsigned 32-bit word
hash32(key, seed) ==
  LET body == MurmurBody(key, 1, <<seed \div 65536, seed % 65536>>)
      tail == MurmurTail(key, body)
  IN  Fmix(Xor32(tail, <<Len(key) \div 65536, Len(key) % 65536>>))

\* (256 * x) mod n, for x < n
Times256Mod(x, n) == (((x * 16) % n) * 16) % n

\* Math.abs(hashValue) % bucketCount, for the unsigned word w
WordMod(w, n) ==
  LET hi == w[1] % n
      hiShifted == Times256Mod(Times256Mod(hi, n), n)
  IN  (hiShifted + (w[2] % n)) % n

(***************************************************************************)
(* HashEncoder                                                             *)
(***************************************************************************)
DefaultHashSeed    == 42    \* constructor default, and the seed Trainer.loadRaw passes
ExampleBucketCount == 100   \* bucket count of the class's documented example

NoEncoder == [bucketCount |-> 0, hashSeed |-> 0, featureName |-> "<none>"]

\* constructor: valid iff bucketCount is a positive integer
ValidBucketCount(bucketCount) == bucketCount > 0

HashEncoderNew(bucketCount, hashSeed, featureName) ==
  [bucketCount |-> bucketCount, hashSeed |-> hashSeed, featureName |-> featureName]

getConfig(enc) ==
  [bucketCount |-> enc.bucketCount, hashSeed |-> enc.hashSeed, featureName |-> enc.featureName]

\* normalizeValue without the trim of strings
normalizeValueNoTrim(value) ==
  IF IsNullish(value) THEN sNULL
  ELSE IF TypeOf(value) = "boolean" THEN (IF value.t = "true" THEN sTRUE ELSE sFALSE)
  ELSE IF TypeOf(value) = "number" THEN
    (CASE value.t = "NaN" -> sNAN
       [] value.t = "Infinity" -> sINF
       [] value.t = "-Infinity" -> sNEGINF
       [] OTHER -> NumberToString(value.n))
  ELSE IF Len(value.s) = 0 THEN sEMPTY ELSE value.s

normalizeValue(value) ==
  IF IsNullish(value) THEN sNULL
  ELSE IF TypeOf(value) = "boolean" THEN (IF value.t = "true" THEN sTRUE ELSE sFALSE)
  ELSE IF TypeOf(value) = "number" THEN
    (CASE value.t = "NaN" -> sNAN
       [] value.t = "Infinity" -> sINF
       [] value.t = "-Infinity" -> sNEGINF
       [] OTHER -> NumberToString(value.n))
  ELSE LET stringValue == Trim(value.s)
       IN  IF Len(stringValue) = 0 THEN sEMPTY ELSE stringValue

\* bucketIndex of encode(): abs(hash) % bucketCount
bucketIndex(enc, value) ==
  WordMod(hash32(normalizeValue(value), enc.hashSeed), enc.bucketCount)

\* new Float32Array(bucketCount) with vec[index] = 1.0; a write past the end is ignored
OneHot(bucketCount, index) ==
  [i \in 1..bucketCount |-> IF i = index + 1 THEN 1 ELSE 0]

\* encode() taking the modulus over bucketCount + 1
encodeOffByOne(enc, value) ==
  OneHot(enc.bucketCount,
         WordMod(hash32(normalizeValue(value), enc.hashSeed), enc.bucketCount + 1))

encode(enc, value) == OneHot(enc.bucketCount, bucketIndex(enc, value))

\* suggestBucketCount with the k <= 1000 test written as k < 1000
suggestBucketCountLt(uniqueValues, maxCollisionRate) ==
  IF uniqueValues <= 1 THEN 1
  ELSE IF uniqueValues < 1000 THEN uniqueValues * uniqueValues
  ELSE 20 * uniqueValues

\* HashEncoder.suggestBucketCount(uniqueValues, _maxCollisionRate)
suggestBucketCount(uniqueValues, maxCollisionRate) ==
  IF uniqueValues <= 1 THEN 1
  ELSE IF uniqueValues <= 1000 THEN uniqueValues * uniqueValues
  ELSE 20 * uniqueValues

\* The estimate 1 - exp(-num/den) is kept exact as its exponent; exp is not evaluated.
ProbZero == [kind |-> "zero", num |-> 0, den |-> 1]
ProbOne  == [kind |-> "one", num |-> 0, den |-> 1]
ProbBirthday(num, den) == [kind |-> "birthday", num |-> num, den |-> den]
ProbNone == [kind |-> "none", num |-> 0, den |-> 1]

\* estimateCollisionProbability without the clamp to 1
estimateNoUpperClamp(uniqueValues, bucketCount) ==
  IF uniqueValues <= 1 THEN ProbZero
  ELSE ProbBirthday(uniqueValues * (uniqueValues - 1), 2 * bucketCount)

\* HashEncoder.estimateCollisionProbability(uniqueValues, bucketCount)
estimateCollisionProbability(uniqueValues, bucketCount) ==
  IF uniqueValues <= 1 THEN ProbZero
  ELSE IF uniqueValues >= bucketCount THEN ProbOne
  ELSE ProbBirthday(uniqueValues * (uniqueValues - 1), 2 * bucketCount)

\* FeatureAnalyzer.calculateBucketCount(k)
calculateBucketCount(k) == IF k <= 1000 THEN k * k ELSE 20 * k

(***************************************************************************)
(* Records and JavaScript helpers used by FeatureAnalyzer, Trainer, Model. *)
(***************************************************************************)
\* record[feature]: undefined when the key is absent
RecGet(record, feature) == IF feature \in DOMAIN record THEN record[feature] ELSE UndefV

Range(seq) == {seq[i] : i \in DOMAIN seq}

SeqsUpTo(S, n) == UNION {[1..m -> S] : m \in 0..n}

\* value of a non-empty sequence of decimal digits
RECURSIVE DigitsValue(_)
DigitsValue(s) ==
  IF s = <<>> THEN 0 ELSE DigitsValue(SubSeq(s, 1, Len(s) - 1)) * 10 + (s[Len(s)] - 48)

IsDigits(s) == s # <<>> /\ \A i \in DOMAIN s : s[i] \in 48..57

sInfinity == <<73,110,102,105,110,105,116,121>>    \* "Infinity"

\* Number(string): white space is stripped, the empty string is 0, a signed
\* decimal integer or Infinity is its value, anything else is NaN.  (Fractions,
\* exponents and radix prefixes do not occur in the strings of the model.)
StringToNumber(s) ==
  LET t      == Trim(s)
      signed == t # <<>> /\ t[1] \in {43, 45}
      body   == IF signed THEN Tail(t) ELSE t
      neg    == signed /\ t[1] = 45
  IN  IF t = <<>> THEN NumV(0)
      ELSE IF IsDigits(body) THEN NumV(IF neg THEN 0 - DigitsValue(body) ELSE DigitsValue(body))
      ELSE IF body = sInfinity THEN (IF neg THEN NegInfV ELSE InfV)
      ELSE NaNV

\* Number(value) for a non-nullish value
ToNumber(v) ==
  CASE TypeOf(v) = "number"  -> v
    [] TypeOf(v) = "string"  -> StringToNumber(v.s)
    [] v.t = "true"          -> NumV(1)
    [] v.t = "false"         -> NumV(0)
    [] v.t = "null"          -> NumV(0)
    [] OTHER                 -> NaNV

\* a <= b for numbers that are not NaN
NumLeq(a, b) ==
  \/ a.t = "-Infinity"
  \/ b.t = "Infinity"
  \/ a.t = "number" /\ b.t = "number" /\ a.n <= b.n

\* a < b for strings, by code units (the default Array.prototype.sort order)
RECURSIVE StrLess(_, _)
StrLess(a, b) ==
  IF b = <<>> THEN FALSE
  ELSE IF a = <<>> THEN TRUE
  ELSE IF Head(a) # Head(b) THEN Head(a) < Head(b)
  ELSE StrLess(Tail(a), Tail(b))

\* Array.from(set).sort()
RECURSIVE SortStrings(_)
SortStrings(S) ==
  IF S = {} THEN <<>>
  ELSE LET least == CHOOSE x \in S : \A y \in S \ {x} : StrLess(x, y)
       IN  <<least>> \o SortStrings(S \ {least})

\* the distinct elements of a sequence, in order of first occurrence
RECURSIVE Dedup(_)
Dedup(seq) ==
  IF seq = <<>> THEN <<>>
  ELSE LET front == Dedup(SubSeq(seq, 1, Len(seq) - 1))
       IN  IF seq[Len(seq)] \in Range(front) THEN front ELSE Append(front, seq[Len(seq)])

(***************************************************************************)
(* FeatureAnalyzer                                                         *)
(***************************************************************************)
NoTarget == ""     \* targetFeature not given (undefined or the empty string)

\* validateInputData without the check for names in both lists
validateInputDataNoDuplicateCheck(data, categoricalFeatures, numericFeatures, targetFeature) ==
  LET allFeatures == Range(categoricalFeatures) \cup Range(numericFeatures)
                       \cup (IF targetFeature # NoTarget THEN {targetFeature} ELSE {})
  IN  IF Len(data) = 0 THEN "Data array is empty or undefined"
      ELSE IF Len(categoricalFeatures) = 0 /\ Len(numericFeatures) = 0
        THEN "No features specified for analysis"
      ELSE IF \E f \in allFeatures : f \notin DOMAIN data[1] THEN "Features not found in data"
      ELSE "none"

\* validateInputData: the error it throws, or "none"
validateInputData(data, categoricalFeatures, numericFeatures, targetFeature) ==
  LET allFeatures == Range(categoricalFeatures) \cup Range(numericFeatures)
                       \cup (IF targetFeature # NoTarget THEN {targetFeature} ELSE {})
  IN  IF Len(data) = 0 THEN "Data array is empty or undefined"
      ELSE IF Len(categoricalFeatures) = 0 /\ Len(numericFeatures) = 0
        THEN "No features specified for analysis"
      ELSE IF \E f \in allFeatures : f \notin DOMAIN data[1] THEN "Features not found in data"
      ELSE IF \E f \in Range(categoricalFeatures) : f \in Range(numericFeatures)
        THEN "Features listed in both categorical and numeric"
      ELSE "none"

\* the Set<string> analyzeCategoricalFeatures fills for one feature
uniqueValues(data, feature) ==
  { IF IsNullish(RecGet(data[i], feature)) THEN sNULL ELSE ToStringJS(RecGet(data[i], feature))
      : i \in DOMAIN data }

\* analyzeCategoricalFeatures: specs[feature] = {k, bucketCount}
analyzeCategoricalFeatures(data, categoricalFeatures) ==
  [feature \in Range(categoricalFeatures) |->
     LET k == Cardinality(uniqueValues(data, feature))
     IN  [k |-> k, bucketCount |-> calculateBucketCount(k)]]

\* analyzeNumericFeatures: min, max, number of valid values and nullCount
\* (mean and std, which the claims do not use, are left out)
analyzeNumericFeatures(data, numericFeatures) ==
  [feature \in Range(numericFeatures) |->
     LET valid  == {i \in DOMAIN data :
                      /\ ~IsNullish(RecGet(data[i], feature))
                      /\ ToNumber(RecGet(data[i], feature)).t # "NaN"}
         values == {ToNumber(RecGet(data[i], feature)) : i \in valid}
     IN  IF valid = {}
           THEN [min |-> NumV(0), max |-> NumV(0), count |-> 0, nullCount |-> Len(data)]
           ELSE [min |-> CHOOSE v \in values : \A w \in values : NumLeq(v, w),
                 max |-> CHOOSE v \in values : \A w \in values : NumLeq(w, v),
                 count |-> Cardinality(valid),
                 nullCount |-> Len(data) - Cardinality(valid)]]

\* analyzeTargetClasses: sorted distinct String(value) of the non-null targets
analyzeTargetClasses(data, targetFeature) ==
  SortStrings({ToStringJS(RecGet(data[i], targetFeature)) :
                 i \in {j \in DOMAIN data : ~IsNullish(RecGet(data[j], targetFeature))}})

\* generateDatasetStats.nullValues
countNullValues(data, categoricalFeatures, numericFeatures) ==
  Cardinality({<<i, j>> \in (DOMAIN data) \X (DOMAIN (categoricalFeatures \o numericFeatures)) :
                 IsNullish(RecGet(data[i], (categoricalFeatures \o numericFeatures)[j]))})

FaThrows(error) ==
  [ok |-> FALSE, error |-> error, categoricalSpecs |-> <<>>, specOrder |-> <<>>,
   numericStats |-> <<>>, targetClasses |-> <<>>, totalRows |-> 0, nullValues |-> 0]

NoAnalysis == FaThrows("not called")

\* analyzeFeatures(data, categoricalFeatures, numericFeatures, targetFeature)
analyzeFeatures(data, categoricalFeatures, numericFeatures, targetFeature) ==
  LET error == validateInputData(data, categoricalFeatures, numericFeatures, targetFeature)
  IN  IF error # "none" THEN FaThrows(error)
      ELSE [ok |-> TRUE, error |-> "none",
            categoricalSpecs |-> analyzeCategoricalFeatures(data, categoricalFeatures),
            specOrder |-> Dedup(categoricalFeatures),
            numericStats |-> analyzeNumericFeatures(data, numericFeatures),
            targetClasses |-> IF targetFeature # NoTarget
                                THEN analyzeTargetClasses(data, targetFeature) ELSE <<>>,
            totalRows |-> Len(data),
            nullValues |-> countNullValues(data, categoricalFeatures, numericFeatures)]

(***************************************************************************)
(* Trainer                                                                 *)
(***************************************************************************)
\* the configuration the Trainer is constructed with
categoricalFeatures == <<"color", "size">>
numericFeatures     == <<"price", "qty">>
target              == "sold"
taskType            == tConfig.taskType
xgbObjective        == tConfig.objective     \* this.xgbParams.objective

\* Map.prototype.set on a Map kept as its entries in insertion order
MapSet(entries, key, value) ==
  IF \E i \in DOMAIN entries : entries[i][1] = key
    THEN [i \in DOMAIN entries |-> IF entries[i][1] = key THEN <<key, value>> ELSE entries[i]]
    ELSE Append(entries, <<key, value>>)

MapHas(entries, key) == \E i \in DOMAIN entries : entries[i][1] = key

MapGet(entries, key) == entries[CHOOSE i \in DOMAIN entries : entries[i][1] = key][2]

RECURSIVE MapSetAll(_, _, _)
\* the loop of loadRaw over Object.entries(analysis.categoricalSpecs)
MapSetAll(entries, order, specs) ==
  IF order = <<>> THEN entries
  ELSE MapSetAll(MapSet(entries, Head(order),
                        HashEncoderNew(specs[Head(order)].bucketCount, DefaultHashSeed, Head(order))),
                 Tail(order), specs)

\* DataLoader.validateData(data, requiredFeatures)
validateData(data, requiredFeatures) ==
  /\ Len(data) > 0
  /\ \A i \in DOMAIN requiredFeatures : requiredFeatures[i] \in DOMAIN data[1]

\* Array.prototype.indexOf
IndexOf(seq, x) ==
  IF \E i \in DOMAIN seq : seq[i] = x
    THEN (CHOOSE i \in DOMAIN seq : seq[i] = x /\ \A j \in 1..(i - 1) : seq[j] # x) - 1
    ELSE -1

RECURSIVE ConcatAll(_)
ConcatAll(seqs) == IF seqs = <<>> THEN <<>> ELSE Head(seqs) \o ConcatAll(Tail(seqs))

\* Array.from(encoded): the Float32Array as numbers
VectorOf(encoded) == [i \in DOMAIN encoded |-> NumV(encoded[i])]

\* the categorical part shared by Trainer.transformRecords and Model.transform:
\* features.push(...encoder.encode(record[featureName])) for each name with an encoder
encodeCategorical(encoders, featureNames, record) ==
  ConcatAll([i \in DOMAIN featureNames |->
    IF MapHas(encoders, featureNames[i])
      THEN VectorOf(encode(MapGet(encoders, featureNames[i]), RecGet(record, featureNames[i])))
      ELSE <<>>])

\* Trainer.transformRecords, numeric entry: typeof value === 'number' ? value : 0
trainerNumericEntry(value) == IF TypeOf(value) = "number" THEN value ELSE NumV(0)

\* Trainer.transformRecords for one record
transformRecord(encoders, record) ==
  encodeCategorical(encoders, categoricalFeatures, record)
    \o [i \in DOMAIN numericFeatures |-> trainerNumericEntry(RecGet(record, numericFeatures[i]))]

transformRecords(encoders, records) ==
  [i \in DOMAIN records |-> transformRecord(encoders, records[i])]

RECURSIVE DigitPrefix(_)
DigitPrefix(s) ==
  IF s # <<>> /\ Head(s) \in 48..57 THEN <<Head(s)>> \o DigitPrefix(Tail(s)) ELSE <<>>

\* parseFloat(s), for strings that hold no fraction or exponent: leading white space
\* and a sign are skipped, the longest run of digits is read, what follows is ignored
parseFloat(s) ==
  LET t      == Trim(s)
      signed == t # <<>> /\ t[1] \in {43, 45}
      body   == IF signed THEN Tail(t) ELSE t
      neg    == signed /\ t[1] = 45
      digits == DigitPrefix(body)
  IN  IF digits # <<>>
        THEN NumV(IF neg THEN 0 - DigitsValue(digits) ELSE DigitsValue(digits))
      ELSE IF Len(body) >= 8 /\ SubSeq(body, 1, 8) = sInfinity
        THEN (IF neg THEN NegInfV ELSE InfV)
      ELSE NaNV

\* the numeric value of a regression target, as calculateTargetStats and
\* transformTargets both read it: a number as it is, a string through parseFloat,
\* anything else throws
targetValue(value) ==
  IF TypeOf(value) = "number" THEN [ok |-> TRUE, error |-> "none", v |-> value]
  ELSE IF TypeOf(value) = "string"
    THEN IF parseFloat(value.s).t = "NaN"
           THEN [ok |-> FALSE, error |-> "Invalid numeric target value", v |-> NaNV]
           ELSE [ok |-> TRUE, error |-> "none", v |-> parseFloat(value.s)]
  ELSE [ok |-> FALSE, error |-> "Target value must be numeric for regression", v |-> NaNV]

\* Trainer.targetNormalization
NoNormalization == [present |-> FALSE, min |-> 0, max |-> 0]

\* calculateTargetStats(data) as far as loadRaw keeps it: {min, max} of the target
\* values, or the error the first unreadable target throws (finite targets)
calculateTargetStats(data) ==
  LET tv(i) == targetValue(RecGet(data[i], target))
      bad   == {i \in DOMAIN data : ~tv(i).ok}
      first == CHOOSE i \in bad : \A j \in bad : i <= j
      vals  == {tv(i).v.n : i \in DOMAIN data}
  IN  IF bad # {} THEN [ok |-> FALSE, error |-> tv(first).error, stats |-> NoNormalization]
      ELSE [ok |-> TRUE, error |-> "none",
            stats |-> [present |-> TRUE,
                       min |-> CHOOSE m \in vals : \A v \in vals : m <= v,
                       max |-> CHOOSE m \in vals : \A v \in vals : v <= m]]

\* the value 0.5 and the quotient (value - min) / range of transformTargets
Half == [num |-> 1, den |-> 2]
Quotient(num, den) == [num |-> num, den |-> den]

\* transformTargets dividing by max instead of max - min
transformTargetsByMax(classes, normalization, records) ==
  LET index(i) == IndexOf(classes, ToStringJS(RecGet(records[i], target)))
      tv(i)    == targetValue(RecGet(records[i], target))
      range    == normalization.max - normalization.min
  IN  IF taskType = "classification"
        THEN IF \E i \in DOMAIN records : index(i) = -1
               THEN [ok |-> FALSE, error |-> "Unknown class", y |-> <<>>]
               ELSE [ok |-> TRUE, error |-> "none", y |-> [i \in DOMAIN records |-> index(i)]]
      ELSE IF range = 0
        THEN [ok |-> TRUE, error |-> "none", y |-> [i \in DOMAIN records |-> Half]]
      ELSE [ok |-> TRUE, error |-> "none",
            y |-> [i \in DOMAIN records |->
                     Quotient(tv(i).v.n - normalization.min, normalization.max)]]

\* Trainer.transformTargets(records): the class indices (classification) or the
\* normalized values (regression), or the error thrown
transformTargets(classes, normalization, records) ==
  LET index(i) == IndexOf(classes, ToStringJS(RecGet(records[i], target)))
      tv(i)    == targetValue(RecGet(records[i], target))
      range    == normalization.max - normalization.min
      bad      == {i \in DOMAIN records : ~tv(i).ok}
      first    == CHOOSE i \in bad : \A j \in bad : i <= j
  IN  IF taskType = "classification"
        THEN IF \E i \in DOMAIN records : index(i) = -1
               THEN [ok |-> FALSE, error |-> "Unknown class", y |-> <<>>]
               ELSE [ok |-> TRUE, error |-> "none", y |-> [i \in DOMAIN records |-> index(i)]]
      ELSE IF ~normalization.present
        THEN [ok |-> FALSE, error |-> "Target normalization parameters not set", y |-> <<>>]
      ELSE IF range = 0
        THEN [ok |-> TRUE, error |-> "none", y |-> [i \in DOMAIN records |-> Half]]
      ELSE IF bad # {}
        THEN [ok |-> FALSE, error |-> tv(first).error, y |-> <<>>]
      ELSE [ok |-> TRUE, error |-> "none",
            y |-> [i \in DOMAIN records |-> Quotient(tv(i).v.n - normalization.min, range)]]

\* String.prototype.startsWith('multi:') on the configured objective
StartsWithMulti(objective) == objective \in {"multi:softprob", "multi:softmax"}

\* shouldUseOneVsRest taking an objective that is not given for a multi: one
shouldUseOneVsRestGivenOnly(isMultiClass) ==
  IF taskType = "regression" THEN FALSE
  ELSE isMultiClass /\ xgbObjective # "" /\ ~StartsWithMulti(xgbObjective)

shouldUseOneVsRest(isMultiClass) ==
  IF taskType = "regression" THEN FALSE
  ELSE isMultiClass /\ ~StartsWithMulti(xgbObjective)

\* splitData: the index at which the (shuffled) records are cut
DefaultTestRatio == 20     \* percent: config.testRatio || 0.2
splitIndex(n, testRatio) ==
  (n * (100 - (IF testRatio = 0 THEN DefaultTestRatio ELSE testRatio))) \div 100

ShuffleOrders(n) == {p \in [1..n -> 1..n] : \A i, j \in 1..n : p[i] = p[j] => i = j}

\* TrainingConfig: a field the caller does not give is undefined; testRatio in percent
TrainingConfig(testRatio, shuffle, seed, useCrossValidation, nFolds) ==
  [testRatio |-> testRatio, shuffle |-> shuffle, seed |-> seed,
   useCrossValidation |-> useCrossValidation, nFolds |-> nFolds]

NoConfig == TrainingConfig(UndefV, UndefV, UndefV, UndefV, UndefV)    \* train()

\* the number a numeric field holds, 0 when it is not given: `field || d` gives d for both
NumberOr0(value) == IF value.t = "number" THEN value.n ELSE 0

\* splitData: config.shuffle !== false
shuffleEnabled(config) == config.shuffle # FalseV

\* train / performCrossValidation: if (config.useCrossValidation)
usesCrossValidation(config) == config.useCrossValidation = TrueV

\* performCrossValidation: config.nFolds || 5
DefaultFolds == 5
foldCount(config) ==
  IF NumberOr0(config.nFolds) = 0 THEN DefaultFolds ELSE NumberOr0(config.nFolds)

\* every fold of foldSize records, the last one too
cvFoldNoRemainder(data, nFolds, fold) ==
  LET foldSize  == Len(data) \div nFolds
      testStart == fold * foldSize
      testEnd   == testStart + foldSize
  IN  [testStart |-> testStart, testEnd |-> testEnd,
       testData |-> SubSeq(data, testStart + 1, testEnd),
       trainData |-> SubSeq(data, 1, testStart) \o SubSeq(data, testEnd + 1, Len(data))]

\* performCrossValidation, "Create fold split" (fold counts from 0)
cvFold(data, nFolds, fold) ==
  LET foldSize  == Len(data) \div nFolds
      testStart == fold * foldSize
      testEnd   == IF fold = nFolds - 1 THEN Len(data) ELSE testStart + foldSize
  IN  [testStart |-> testStart, testEnd |-> testEnd,
       testData |-> SubSeq(data, testStart + 1, testEnd),
       trainData |-> SubSeq(data, 1, testStart) \o SubSeq(data, testEnd + 1, Len(data))]

\* performCrossValidation, the score of one fold: the accuracy of `pred > 0.5 ? 1 : 0`
\* as correct / total (0 / 0 is NaN), or the RMSE, whose value is left open here
cvScore(y_test, p) ==
  IF taskType = "classification"
    THEN [metric |-> "accuracy",
          correct |-> Cardinality({i \in DOMAIN y_test : y_test[i] = IF p > 50 THEN 1 ELSE 0}),
          total |-> Len(y_test)]
    ELSE [metric |-> "rmse", correct |-> 0, total |-> Len(y_test)]

\* Trainer.trainingMetrics: unset, or what evaluateModel returned, to which
\* performCrossValidation adds crossValidationScores
NoMetrics == [present |-> FALSE, hasCrossValidationScores |-> FALSE, crossValidationScores |-> <<>>]
evaluateModel == [present |-> TRUE, hasCrossValidationScores |-> FALSE, crossValidationScores |-> <<>>]
withCrossValidationScores(metrics, scores) ==
  IF metrics.present
    THEN [metrics EXCEPT !.hasCrossValidationScores = TRUE, !.crossValidationScores = scores]
    ELSE metrics

\* an XGBoost instance: constructed, and fitted once fit() has returned
NoModel == [present |-> FALSE, fitted |-> FALSE, X |-> <<>>, y |-> <<>>]
XGBoost(fitted, X, y) == [present |-> TRUE, fitted |-> fitted, X |-> X, y |-> y]

\* binaryLabels of trainOneVsRest
binaryLabels(y, classIdx) == [i \in DOMAIN y |-> IF y[i] = classIdx THEN 1 ELSE 0]

\* oneVsRestModels after the loop of trainOneVsRest fitted the first `count` classes
RECURSIVE ovrAfter(_, _, _, _, _)
ovrAfter(models, classes, X, y, count) ==
  IF count = 0 THEN models
  ELSE MapSet(ovrAfter(models, classes, X, y, count - 1),
              classes[count], XGBoost(TRUE, X, binaryLabels(y, count - 1)))

\* the loops of predictClassificationBatch / predictClassification over the class
\* scores: the first entry, in Map order, that no other entry beats
bestEntry(models, score) ==
  CHOOSE i \in DOMAIN models :
    /\ \A j \in DOMAIN models : score[models[j][1]] <= score[models[i][1]]
    /\ \A j \in 1..(i - 1) : score[models[j][1]] < score[models[i][1]]

sUnknown == <<117,110,107,110,111,119,110>>    \* "unknown"

\* classScores.get(cls) || 0
scoreOrZero(models, score, cls) == IF MapHas(models, cls) THEN score[cls] ELSE 0

\* classes[classIndex] || 'unknown'
labelAt(classes, classIndex) ==
  IF classIndex + 1 \in DOMAIN classes /\ classes[classIndex + 1] # <<>>
    THEN classes[classIndex + 1] ELSE sUnknown

\* the One-vs-Rest branch of Trainer.predictClassificationBatch for one feature
\* vector; scores are in percent, an empty Map leaves '' and -Infinity (kept as -1)
trainerPredictOvr(models, classes, score) ==
  LET bestClass == IF models = <<>> THEN <<>> ELSE models[bestEntry(models, score)][1]
  IN  [taskType |-> "classification",
       classIndex |-> IndexOf(classes, bestClass),
       classLabel |-> bestClass,
       probability |-> IF models = <<>> THEN -1 ELSE score[bestClass],
       probabilities |-> [i \in DOMAIN classes |-> scoreOrZero(models, score, classes[i])]]

\* the One-vs-Rest branch of Model.predictClassification
modelPredictOvr(models, classes, score) ==
  LET bestClass == IF models = <<>> THEN <<>> ELSE models[bestEntry(models, score)][1]
  IN  [taskType |-> "classification",
       classIndex |-> IndexOf(classes, bestClass),
       classLabel |-> IF bestClass = <<>> THEN sUnknown ELSE bestClass,
       probability |-> IF models = <<>> THEN -1 ELSE score[bestClass],
       probabilities |-> [i \in DOMAIN classes |-> scoreOrZero(models, score, classes[i])]]

\* predictSingleModel answering index 1 from 0.5 on
predictSingleModelFromHalf(classes, p) ==
  LET classIndex == IF p >= 50 THEN 1 ELSE 0
  IN  [taskType |-> "classification",
       classIndex |-> classIndex,
       classLabel |-> labelAt(classes, classIndex),
       probability |-> p,
       probabilities |-> <<100 - p, p>>]

\* the single-model branch of both: the multi-class and the binary case run the same code
predictSingleModel(classes, p) ==
  LET classIndex == IF p > 50 THEN 1 ELSE 0
  IN  [taskType |-> "classification",
       classIndex |-> classIndex,
       classLabel |-> labelAt(classes, classIndex),
       probability |-> p,
       probabilities |-> <<100 - p, p>>]

\* Trainer.predictBatch for one feature vector
trainerPredict(isOneVsRest, models, classes, score) ==
  IF taskType = "classification"
    THEN IF isOneVsRest THEN trainerPredictOvr(models, classes, score.ovr)
         ELSE predictSingleModel(classes, score.single)
    ELSE [taskType |-> "regression", value |-> score.single]

\* predictRegression without the test for a positive range
predictRegressionAnyRange(normalization, p) ==
  [taskType |-> "regression",
   value |-> IF normalization.present
               THEN p * (normalization.max - normalization.min) + 100 * normalization.min
               ELSE p]

\* Model.predictRegression: raw scores are in percent, returned values in hundredths
predictRegression(normalization, p) ==
  [taskType |-> "regression",
   value |-> IF normalization.present /\ normalization.max - normalization.min > 0
               THEN p * (normalization.max - normalization.min) + 100 * normalization.min
               ELSE p]

\* getModelMetadata(): the ModelMetadata of the trained Trainer
getModelMetadata(encoders, classes, isOneVsRest, metrics, normalization) ==
  [present |-> TRUE,
   categoricalFeatures |-> categoricalFeatures,
   numericFeatures |-> numericFeatures,
   target |-> target,
   taskType |-> taskType,
   encoders |-> [i \in DOMAIN encoders |->
                   [featureName |-> encoders[i][2].featureName,
                    bucketCount |-> encoders[i][2].bucketCount,
                    hashSeed |-> encoders[i][2].hashSeed,
                    uniqueCount |-> 0]],
   metrics |-> metrics,
   isOneVsRest |-> isOneVsRest,
   classes |-> IF taskType = "classification" THEN classes ELSE <<>>,
   numClasses |-> IF taskType = "classification" THEN Len(classes) ELSE 0,
   targetNormalization |-> IF taskType = "classification" THEN NoNormalization
                           ELSE normalization]

NoMetadata ==
  [present |-> FALSE, categoricalFeatures |-> <<>>, numericFeatures |-> <<>>,
   target |-> "", taskType |-> "", encoders |-> <<>>, metrics |-> NoMetrics,
   isOneVsRest |-> FALSE, classes |-> <<>>, numClasses |-> 0,
   targetNormalization |-> NoNormalization]

\* the model directory
NoDir ==
  [exists |-> FALSE, model |-> NoModel, modelsDir |-> FALSE, models |-> <<>>,
   encodersWritten |-> FALSE,
   encoders |-> <<>>, metadata |-> NoMetadata, trainedRecords |-> <<>>, trainedX |-> <<>>]

(***************************************************************************)
(* Model                                                                   *)
(***************************************************************************)
NoLoadedModel ==
  [loaded |-> FALSE, metadata |-> NoMetadata, encoders |-> <<>>, model |-> NoModel,
   oneVsRestModels |-> <<>>, trainedRecords |-> <<>>, trainedX |-> <<>>]

\* the Model constructor: one HashEncoder per metadata.encoders entry
RECURSIVE modelEncoders(_)
modelEncoders(encoderMeta) ==
  IF encoderMeta = <<>> THEN <<>>
  ELSE LET last == encoderMeta[Len(encoderMeta)]
       IN  MapSet(modelEncoders(SubSeq(encoderMeta, 1, Len(encoderMeta) - 1)),
                  last.featureName,
                  HashEncoderNew(last.bucketCount, last.hashSeed, last.featureName))

\* Model.load: the One-vs-Rest models found under models/
RECURSIVE loadOvrModels(_, _)
loadOvrModels(classes, files) ==
  IF classes = <<>> THEN <<>>
  ELSE LET rest == loadOvrModels(SubSeq(classes, 1, Len(classes) - 1), files)
           name == classes[Len(classes)]
       IN  IF MapHas(files, name) THEN MapSet(rest, name, MapGet(files, name)) ELSE rest

\* Model.transform, numeric entry: a number, a numeric string coerced, else 0
modelNumericEntry(value) ==
  IF TypeOf(value) = "number" THEN value
  ELSE IF TypeOf(value) = "string" /\ StringToNumber(value.s).t # "NaN"
    THEN StringToNumber(value.s)
  ELSE NumV(0)

\* Model.transform(record)
modelTransform(model, record) ==
  encodeCategorical(model.encoders, model.metadata.categoricalFeatures, record)
    \o [i \in DOMAIN model.metadata.numericFeatures |->
          modelNumericEntry(RecGet(record, model.metadata.numericFeatures[i]))]

(***************************************************************************)
(* Initial state: nothing constructed, no call made.                       *)
(***************************************************************************)
NoCall  == [t |-> "nocall", s |-> <<>>, n |-> 0]
NoPrediction == [call |-> "none", result |-> [taskType |-> "none"]]
NoData  == <<>>

EncInit ==
  /\ encoder = NoEncoder /\ ctorThrew = FALSE
  /\ lastIn = NoCall /\ lastOut = <<>> /\ prevIn = NoCall /\ prevOut = <<>>

FaInit ==
  /\ faData = NoData /\ faCat = <<>> /\ faNum = <<>> /\ faTarget = NoTarget
  /\ faResult = NoAnalysis

\* the labels the tree models of the model are keyed by
s100 == <<49,48,48>>    \* "100"
s200 == <<50,48,48>>    \* "200"
s300 == <<51,48,48>>    \* "300"
ScoreLabels == {s100, s200, s300, <<120>>, <<121,101,115>>, <<110,111>>}

\* the configuration of the README's quick start: binary classification
BinaryConfig == [taskType |-> "classification", objective |-> "binary:logistic"]
\* every tree model answers 0.75 (scores are in percent)
FixedScore == [single |-> 75, ovr |-> [l \in ScoreLabels |-> 75]]

TrStart ==
  /\ tDataset = NoData /\ tEncoders = <<>> /\ tClasses = <<>> /\ tIsMultiClass = FALSE
  /\ tModel = NoModel /\ tIsOneVsRest = FALSE /\ tOvrModels = <<>>
  /\ tTrainedAt = FALSE /\ tMetrics = NoMetrics /\ tError = "none"
  /\ trainedRecords = <<>> /\ trainedX = <<>> /\ tFresh = FALSE
  /\ disk = NoDir /\ mModel = NoLoadedModel /\ mError = "none"
  /\ mIn = <<>> /\ mOut = <<>>
  /\ tTargetNormalization = NoNormalization
  /\ trainedY = <<>> /\ tPredictions = <<>> /\ mPred = NoPrediction
  /\ trainedConfig = NoConfig /\ cvFolds = <<>>
  /\ savePc = "idle" /\ saveQueue = <<>>

TrInit == TrStart /\ tConfig = BinaryConfig /\ xgbScore = FixedScore

\* no sizing call yet: -1 is a value neither sizing helper returns
SizeInit == sbK = 0 /\ sbRate = 0 /\ sbOut = -1 /\ cbOut = -1

EstInit ==
  /\ estK = 0 /\ estN = 0 /\ estP = ProbNone
  /\ estPrevK = 0 /\ estPrevN = 0 /\ estPrevP = ProbNone

Init == EncInit /\ SizeInit /\ EstInit /\ FaInit /\ TrInit

(***************************************************************************)
(* HashEncoder: construction and encode() calls on one instance.           *)
(***************************************************************************)
HashSeeds    == {7, DefaultHashSeed}
BucketCounts == (-1 .. MaxBucketCount) \cup {ExampleBucketCount}
FeatureNames == {"color", "size"}

sTest == <<116,101,115,116>>     \* "test"

\* values passed to encode()
EncodeValues ==
  { StrV(sTest), StrV(<<32>> \o sTest \o <<32>>), StrV(<<32,32>> \o sTest \o <<9,32>>),
    StrV(<<>>), StrV(<<32>>), StrV(<<53>>), NumV(5),
    TrueV, FalseV, NullV, UndefV, NaNV, InfV, NegInfV }

\* new HashEncoder(bucketCount, hashSeed, featureName)
Construct(bucketCount, hashSeed, featureName) ==
  /\ encoder = NoEncoder
  /\ IF ValidBucketCount(bucketCount)
       THEN /\ encoder' = HashEncoderNew(bucketCount, hashSeed, featureName)
            /\ ctorThrew' = FALSE
            /\ lastIn' = NoCall /\ lastOut' = <<>>
            /\ prevIn' = NoCall /\ prevOut' = <<>>
       ELSE /\ ctorThrew' = TRUE
            /\ UNCHANGED <<encoder, lastIn, lastOut, prevIn, prevOut>>
  /\ UNCHANGED <<sizeVars, estVars, faVars, trVars>>

\* encoder.encode(value)
Encode(value) ==
  /\ encoder # NoEncoder
  /\ prevIn' = lastIn /\ prevOut' = lastOut
  /\ lastIn' = value /\ lastOut' = encode(encoder, value)
  /\ UNCHANGED <<encoder, ctorThrew, sizeVars, estVars, faVars, trVars>>

EncNext ==
  \/ \E b \in BucketCounts, s \in HashSeeds, f \in FeatureNames : Construct(b, s, f)
  \/ \E v \in EncodeValues : Encode(v)

(***************************************************************************)
(* Static sizing helpers: one call of each on the same uniqueValues.       *)
(***************************************************************************)
CollisionRates == {5, 10, 50}    \* maxCollisionRate arguments, in percent

\* the arguments of the one sizing call of a behaviour
SizeArgs ==
  /\ sbK \in (-2) .. MaxSizeK /\ sbRate \in CollisionRates
  /\ sbOut = -1 /\ cbOut = -1

\* HashEncoder.suggestBucketCount(sbK, sbRate / 100) and
\* FeatureAnalyzer.calculateBucketCount(sbK)
SizeFeature ==
  /\ sbOut = -1
  /\ sbOut' = suggestBucketCount(sbK, sbRate)
  /\ cbOut' = calculateBucketCount(sbK)
  /\ UNCHANGED <<sbK, sbRate, encVars, estVars, faVars, trVars>>

SizeNext == SizeFeature

(***************************************************************************)
(* Static collision estimate: successive calls.                            *)
(***************************************************************************)
\* the bucketCount the calls of a behaviour are made with
EstArgs ==
  /\ estN \in 1 .. MaxEstN /\ estPrevN = estN
  /\ estK = 0 /\ estP = ProbNone /\ estPrevK = 0 /\ estPrevP = ProbNone

\* HashEncoder.estimateCollisionProbability(k, estN)
EstimateCollision(k) ==
  /\ estPrevK' = estK /\ estPrevP' = estP
  /\ estK' = k
  /\ estP' = estimateCollisionProbability(k, estN)
  /\ UNCHANGED <<estN, estPrevN, encVars, sizeVars, faVars, trVars>>

EstNext == \E k \in 0 .. MaxEstK : EstimateCollision(k)

\* p <= q for two estimates: exp is strictly increasing, so two birthday
\* estimates compare as their exponents num/den do
ProbLeq(p, q) ==
  \/ p.kind = "zero"
  \/ q.kind = "one"
  \/ /\ p.kind = "birthday" /\ q.kind = "birthday"
     /\ p.num * q.den <= q.num * p.den
  \/ /\ p.kind = "one" /\ q.kind = "one"

\* 0 <= p <= 1
ProbInUnitInterval(p) ==
  \/ p.kind \in {"zero", "one"}
  \/ p.kind = "birthday" /\ p.num >= 0 /\ p.den > 0

(***************************************************************************)
(* FeatureAnalyzer.analyzeFeatures called on small datasets.               *)
(***************************************************************************)
sA    == <<97>>          \* "a"
sSpA  == <<32, 97>>      \* " a"
sTrue == <<116,114,117,101>>   \* "true"
sFive == <<53>>          \* "5"
sYes  == <<121,101,115>> \* "yes"
sNo   == <<110,111>>     \* "no"

FaColorValues == {StrV(sA), StrV(sSpA), TrueV, StrV(sTrue), NullV}

FaRecords ==
  { [color |-> c, price |-> p, sold |-> y] :
      c \in FaColorValues, p \in {NumV(3), StrV(sFive)}, y \in {StrV(sYes), StrV(sNo)} }
  \cup { [price |-> NumV(3), sold |-> StrV(sYes)],
         [color |-> StrV(sA), sold |-> StrV(sYes)],
         [color |-> StrV(sA), price |-> NumV(3)] }

FaCategoricalLists == {<<>>, <<"color">>, <<"color", "price">>}
FaNumericLists     == {<<>>, <<"price">>}
FaTargets          == {NoTarget, "sold"}

\* the arguments of the one analyzeFeatures call of a behaviour
FaArgs ==
  /\ faData \in SeqsUpTo(FaRecords, MaxFaRows)
  /\ faCat \in FaCategoricalLists /\ faNum \in FaNumericLists
  /\ faTarget \in FaTargets
  /\ faResult = NoAnalysis

\* FeatureAnalyzer.analyzeFeatures(faData, faCat, faNum, faTarget)
AnalyzeFeatures ==
  /\ faResult = NoAnalysis
  /\ faResult' = analyzeFeatures(faData, faCat, faNum, faTarget)
  /\ UNCHANGED <<faData, faCat, faNum, faTarget, encVars, sizeVars, estVars, trVars>>

FaNext == AnalyzeFeatures

EncSpec  == Init /\ [][EncNext]_vars
SizeSpecInit == EncInit /\ SizeArgs /\ EstInit /\ FaInit /\ TrInit
SizeSpec == SizeSpecInit /\ [][SizeNext]_vars

EstSpecInit == EncInit /\ SizeInit /\ EstArgs /\ FaInit /\ TrInit
EstSpec  == EstSpecInit /\ [][EstNext]_vars

FaSpecInit == EncInit /\ SizeInit /\ EstInit /\ FaArgs /\ TrInit
FaSpec   == FaSpecInit /\ [][FaNext]_vars

(***************************************************************************)
(* The Trainer up to its first save(), the directory it writes, and the    *)
(* Model loaded from that directory.                                       *)
(***************************************************************************)
sB == <<98>>     \* "b"
sX == <<120>>    \* "x"

\* the records datasets are made of
TrainerRecords ==
  { [color |-> StrV(sA),   size |-> StrV(sB), price |-> NumV(3),     qty |-> NumV(7), sold |-> StrV(sYes)],
    [color |-> StrV(sSpA), size |-> NumV(5),  price |-> StrV(sFive), qty |-> NaNV,    sold |-> StrV(sNo)],
    [color |-> TrueV,      size |-> StrV(sB), price |-> StrV(sX),    qty |-> NullV,   sold |-> StrV(sYes)],
    [color |-> NullV,      size |-> StrV(sB), price |-> TrueV,       sold |-> NullV] }

TestRatios == {0, 50}    \* config.testRatio in percent; 0 stands for not given
RatioConfig(r) ==
  TrainingConfig(IF r = 0 THEN UndefV ELSE NumV(r), UndefV, UndefV, UndefV, UndefV)

\* trainer.loadRaw(data)
LoadRaw(data) ==
  LET analysis == analyzeFeatures(data, categoricalFeatures, numericFeatures, target)
      encoders == MapSetAll(tEncoders, analysis.specOrder, analysis.categoricalSpecs)
      stats    == calculateTargetStats(data)
  IN
  /\ ~disk.exists
  /\ IF ~validateData(data, categoricalFeatures \o numericFeatures \o <<target>>)
       THEN /\ tError' = "Data validation failed"
            /\ UNCHANGED <<tDataset, tEncoders, tClasses, tIsMultiClass, tFresh,
                           tTargetNormalization>>
     ELSE IF ~analysis.ok
       THEN /\ tError' = analysis.error
            /\ UNCHANGED <<tDataset, tEncoders, tClasses, tIsMultiClass, tFresh,
                           tTargetNormalization>>
     ELSE IF taskType = "classification"
       THEN /\ tEncoders' = encoders
            /\ tClasses' = analysis.targetClasses
            /\ tIsMultiClass' = (Len(analysis.targetClasses) > 2)
            /\ tDataset' = data
            /\ tFresh' = FALSE
            /\ tError' = "none"
            /\ UNCHANGED tTargetNormalization
     ELSE IF ~stats.ok
       THEN \* calculateTargetStats threw after the encoders were replaced
            /\ tEncoders' = encoders
            /\ tFresh' = FALSE
            /\ tError' = stats.error
            /\ UNCHANGED <<tDataset, tClasses, tIsMultiClass, tTargetNormalization>>
     ELSE /\ tEncoders' = encoders
          /\ tTargetNormalization' = stats.stats
          /\ tDataset' = data
          /\ tFresh' = FALSE
          /\ tError' = "none"
          /\ UNCHANGED <<tClasses, tIsMultiClass>>
  /\ UNCHANGED <<tModel, tIsOneVsRest, tOvrModels, tTrainedAt, tMetrics,
                 trainedRecords, trainedX, disk, mModel, mError, mIn, mOut,
                 tConfig, xgbScore, trainedY, tPredictions, mPred,
                 trainedConfig, cvFolds>>
  /\ UNCHANGED <<encVars, sizeVars, estVars, faVars, savePc, saveQueue>>

\* trainer.train(config): `order` is the order the shuffle of splitData leaves the
\* records in (Math.random decides; the identity when shuffle is false), `fits` the
\* number of fit() calls that return before one throws, `evals` whether predictBatch
\* of the single model returns in evaluateModel, `cvFits` the number of
\* cross-validation folds whose temporary model is fitted before a fit() throws
Train(config, order, fits, evals, cvFits) ==
  LET n        == Len(tDataset)
      shuffled == [i \in 1..n |-> tDataset[order[i]]]
      cut      == splitIndex(n, NumberOr0(config.testRatio))
      trainSet == SubSeq(shuffled, 1, cut)
      testSet  == SubSeq(shuffled, cut + 1, n)
      X_train  == transformRecords(tEncoders, trainSet)
      y_train  == transformTargets(tClasses, tTargetNormalization, trainSet)
      X_test   == transformRecords(tEncoders, testSet)
      y_test   == IF Len(testSet) > 0
                    THEN transformTargets(tClasses, tTargetNormalization, testSet)
                    ELSE [ok |-> TRUE, error |-> "none", y |-> <<>>]
      useOvr   == tIsMultiClass /\ shouldUseOneVsRest(tIsMultiClass)
      fitCalls == IF useOvr THEN Len(tClasses) ELSE 1
      evaluates == Len(testSet) > 0
      metrics  == IF evaluates THEN evaluateModel ELSE tMetrics
      nFolds   == foldCount(config)
      folds    == IF usesCrossValidation(config)
                    THEN [i \in 1..nFolds |-> cvFold(tDataset, nFolds, i - 1)] ELSE <<>>
      scores   == [i \in DOMAIN folds |->
                     cvScore(transformTargets(tClasses, tTargetNormalization,
                                              folds[i].testData).y, xgbScore.single)]
      fitted   == /\ IF useOvr
                       THEN /\ tIsOneVsRest' = TRUE
                            /\ tOvrModels' = ovrAfter(tOvrModels, tClasses, X_train,
                                                       y_train.y, fitCalls)
                            /\ UNCHANGED tModel
                       ELSE /\ tModel' = XGBoost(TRUE, X_train, y_train.y)
                            /\ tIsOneVsRest' = FALSE
                            /\ UNCHANGED tOvrModels
  IN
  /\ ~disk.exists
  /\ order \in ShuffleOrders(n)
  /\ ~shuffleEnabled(config) => order = [i \in 1..n |-> i]
  /\ fits \in 0..fitCalls
  /\ cvFits \in 0..Len(folds)
  /\ IF tDataset = NoData
       THEN /\ fits = fitCalls /\ evals /\ cvFits = Len(folds)
            /\ order = [i \in 1..n |-> i]
            /\ tError' = "No data loaded"
            /\ UNCHANGED <<tModel, tIsOneVsRest, tOvrModels, tTrainedAt, tMetrics,
                           trainedRecords, trainedX, tFresh, trainedY, tPredictions,
                           trainedConfig, cvFolds>>
     ELSE IF ~y_train.ok \/ ~y_test.ok
       THEN /\ fits = fitCalls /\ evals /\ cvFits = Len(folds)
            /\ tError' = IF ~y_train.ok THEN y_train.error ELSE y_test.error
            /\ UNCHANGED <<tModel, tIsOneVsRest, tOvrModels, tTrainedAt, tMetrics,
                           trainedRecords, trainedX, tFresh, trainedY, tPredictions,
                           trainedConfig, cvFolds>>
     ELSE IF fits < fitCalls
       THEN \* a fit() call threw
            /\ evals /\ cvFits = Len(folds)
            /\ tError' = "fit failed"
            /\ IF useOvr
                 THEN /\ tIsOneVsRest' = TRUE
                      /\ tOvrModels' = ovrAfter(tOvrModels, tClasses, X_train, y_train.y, fits)
                      /\ UNCHANGED tModel
                 ELSE /\ tModel' = XGBoost(FALSE, X_train, y_train.y)
                      /\ UNCHANGED <<tIsOneVsRest, tOvrModels>>
            /\ tFresh' = FALSE
            /\ UNCHANGED <<tTrainedAt, tMetrics, trainedRecords, trainedX,
                           trainedY, tPredictions, trainedConfig, cvFolds>>
     ELSE IF ~evals
       THEN \* this.model.predictBatch threw in evaluateModel; the One-vs-Rest
            \* evaluation catches what predictSingle throws
            /\ evaluates /\ ~useOvr /\ cvFits = Len(folds)
            /\ fitted
            /\ tError' = "evaluation failed"
            /\ tFresh' = FALSE
            /\ UNCHANGED <<tTrainedAt, tMetrics, trainedRecords, trainedX,
                           trainedY, tPredictions, trainedConfig, cvFolds>>
     ELSE IF cvFits < Len(folds)
       THEN \* a fit() of a temporary model threw in performCrossValidation
            /\ fitted
            /\ tMetrics' = metrics
            /\ tError' = "cross-validation failed"
            /\ tFresh' = FALSE
            /\ UNCHANGED <<tTrainedAt, trainedRecords, trainedX,
                           trainedY, tPredictions, trainedConfig, cvFolds>>
     ELSE /\ fitted
          /\ tMetrics' = IF usesCrossValidation(config)
                            THEN withCrossValidationScores(metrics, scores) ELSE metrics
          /\ tPredictions' = [i \in DOMAIN testSet |->
                                trainerPredict(tIsOneVsRest', tOvrModels', tClasses, xgbScore)]
          /\ tTrainedAt' = TRUE
          /\ trainedRecords' = shuffled
          /\ trainedX' = X_train \o X_test
          /\ trainedY' = y_train.y \o y_test.y
          /\ trainedConfig' = config
          /\ cvFolds' = folds
          /\ tFresh' = TRUE
          /\ tError' = "none"
  /\ UNCHANGED <<tDataset, tEncoders, tClasses, tIsMultiClass, disk, mModel, mError, mIn, mOut,
                 tConfig, xgbScore, tTargetNormalization, mPred>>
  /\ UNCHANGED <<encVars, sizeVars, estVars, faVars, savePc, saveQueue>>

RECURSIVE writeModels(_, _)
\* the loop of save() over oneVsRestModels.entries(): one file per class
writeModels(files, models) ==
  IF models = <<>> THEN files
  ELSE writeModels(MapSet(files, Head(models)[1], Head(models)[2]), Tail(models))

\* saveError asking only for a model to write
saveErrorModelOnly(model, ovrModels, trainedAt) ==
  IF ~model.present /\ Len(ovrModels) = 0 THEN "No trained model to save" ELSE "none"

\* the error save() throws in the state given, or "none"
saveError(model, ovrModels, trainedAt) ==
  IF ~model.present /\ Len(ovrModels) = 0 THEN "No trained model to save"
  ELSE IF ~trainedAt THEN "Model not trained yet"
  ELSE "none"

\* trainer.save(directory)
Save ==
  /\ ~disk.exists
  /\ tError' = saveError(tModel, tOvrModels, tTrainedAt)
  /\ IF ~tModel.present /\ Len(tOvrModels) = 0
       THEN UNCHANGED disk
       ELSE disk' =
                 [exists |-> TRUE,
                  model |-> IF ~tIsOneVsRest /\ tModel.present THEN tModel ELSE disk.model,
                  modelsDir |-> tIsOneVsRest \/ disk.modelsDir,
                  models |-> IF tIsOneVsRest THEN writeModels(disk.models, tOvrModels)
                             ELSE disk.models,
                  encodersWritten |-> TRUE,
                  encoders |-> [i \in DOMAIN tEncoders |-> getConfig(tEncoders[i][2])],
                  metadata |-> IF tTrainedAt
                                 THEN getModelMetadata(tEncoders, tClasses, tIsOneVsRest,
                                                       tMetrics, tTargetNormalization)
                                 ELSE disk.metadata,
                  trainedRecords |-> IF tTrainedAt /\ tFresh THEN trainedRecords ELSE <<>>,
                  trainedX |-> IF tTrainedAt /\ tFresh THEN trainedX ELSE <<>>]
  /\ UNCHANGED <<tDataset, tEncoders, tClasses, tIsMultiClass, tModel, tIsOneVsRest,
                 tOvrModels, tTrainedAt, tMetrics, trainedRecords, trainedX, tFresh,
                 mModel, mError, mIn, mOut,
                 tConfig, xgbScore, tTargetNormalization, trainedY, tPredictions, mPred,
                 trainedConfig, cvFolds>>
  /\ UNCHANGED <<encVars, sizeVars, estVars, faVars, savePc, saveQueue>>

\* save() statement by statement: what is on disk while it runs. The statements
\* after the first test, in the order save() runs them; metadata first is the
\* other order
saveStepAfterMetadataFirst(step) ==
  CASE step = "models"   -> "metadata"
    [] step = "metadata" -> "encoders"
    [] step = "encoders" -> "idle"

saveStepAfter(step) ==
  CASE step = "models"   -> "encoders"
    [] step = "encoders" -> "metadata"
    [] step = "metadata" -> "idle"

\* the test at the head of save() and the mkdirSync calls
SaveBegin ==
  /\ savePc = "idle" /\ ~disk.exists
  /\ IF ~tModel.present /\ Len(tOvrModels) = 0
       THEN /\ tError' = "No trained model to save"
            /\ UNCHANGED <<disk, savePc, saveQueue>>
       ELSE /\ disk' = [disk EXCEPT !.exists = TRUE, !.modelsDir = tIsOneVsRest]
            /\ savePc' = "models"
            /\ saveQueue' = IF tIsOneVsRest THEN tOvrModels ELSE <<>>
            /\ UNCHANGED tError
  /\ UNCHANGED <<tDataset, tEncoders, tClasses, tIsMultiClass, tModel, tIsOneVsRest,
                 tOvrModels, tTrainedAt, tMetrics, trainedRecords, trainedX, tFresh,
                 mModel, mError, mIn, mOut,
                 tConfig, xgbScore, tTargetNormalization, trainedY, tPredictions, mPred,
                 trainedConfig, cvFolds>>
  /\ UNCHANGED <<encVars, sizeVars, estVars, faVars>>

\* one writeFileSync of save() (getModelMetadata throwing instead of the last one)
SaveStep ==
  /\ savePc # "idle"
  /\ CASE savePc = "models" ->
           /\ disk' = IF saveQueue # <<>>
                        THEN [disk EXCEPT !.models = MapSet(disk.models, Head(saveQueue)[1],
                                                            Head(saveQueue)[2])]
                      ELSE IF ~tIsOneVsRest /\ tModel.present
                        THEN [disk EXCEPT !.model = tModel]
                      ELSE disk
           /\ saveQueue' = IF saveQueue # <<>> THEN Tail(saveQueue) ELSE saveQueue
           /\ savePc' = IF saveQueue' # <<>> THEN savePc ELSE saveStepAfter(savePc)
           /\ UNCHANGED tError
       [] savePc = "encoders" ->
           /\ disk' = [disk EXCEPT !.encodersWritten = TRUE,
                                   !.encoders = [i \in DOMAIN tEncoders |->
                                                   getConfig(tEncoders[i][2])]]
           /\ savePc' = saveStepAfter(savePc)
           /\ UNCHANGED <<saveQueue, tError>>
       [] savePc = "metadata" ->
           /\ IF tTrainedAt
                THEN /\ disk' = [disk EXCEPT !.metadata =
                                   getModelMetadata(tEncoders, tClasses, tIsOneVsRest,
                                                    tMetrics, tTargetNormalization)]
                     /\ savePc' = saveStepAfter(savePc)
                     /\ tError' = IF savePc' = "idle" THEN "none" ELSE tError
                ELSE /\ tError' = "Model not trained yet"
                     /\ savePc' = "idle"
                     /\ UNCHANGED disk
           /\ UNCHANGED saveQueue
  /\ UNCHANGED <<tDataset, tEncoders, tClasses, tIsMultiClass, tModel, tIsOneVsRest,
                 tOvrModels, tTrainedAt, tMetrics, trainedRecords, trainedX, tFresh,
                 mModel, mError, mIn, mOut,
                 tConfig, xgbScore, tTargetNormalization, trainedY, tPredictions, mPred,
                 trainedConfig, cvFolds>>
  /\ UNCHANGED <<encVars, sizeVars, estVars, faVars>>

\* a writeFileSync of save() throws, or the process ends there
SaveInterrupted ==
  /\ savePc # "idle"
  /\ savePc' = "idle"
  /\ tError' = "write failed"
  /\ UNCHANGED <<tDataset, tEncoders, tClasses, tIsMultiClass, tModel, tIsOneVsRest,
                 tOvrModels, tTrainedAt, tMetrics, trainedRecords, trainedX, tFresh,
                 disk, mModel, mError, mIn, mOut, saveQueue,
                 tConfig, xgbScore, tTargetNormalization, trainedY, tPredictions, mPred,
                 trainedConfig, cvFolds>>
  /\ UNCHANGED <<encVars, sizeVars, estVars, faVars>>

\* the error Model.load throws for the directory given, or "none"
loadError(dir) ==
  IF ~dir.exists THEN "Model directory not found"
  ELSE IF ~dir.metadata.present THEN "Model metadata not found"
  ELSE IF dir.metadata.isOneVsRest /\ ~dir.modelsDir
    THEN "One-vs-Rest models directory not found"
  ELSE IF dir.metadata.isOneVsRest /\ Len(loadOvrModels(dir.metadata.classes, dir.models)) = 0
    THEN "No One-vs-Rest models found"
  ELSE IF ~dir.metadata.isOneVsRest /\ ~dir.model.present THEN "Model file not found"
  ELSE "none"

\* Model.load(directory); what it does depends on the directory only, so a load of
\* the directory that does not exist yet is tried before the Trainer is used
Load ==
  /\ ~mModel.loaded
  /\ disk.exists \/ tDataset = NoData
  /\ mError' = loadError(disk)
  /\ IF loadError(disk) # "none"
       THEN UNCHANGED mModel
       ELSE mModel' = [loaded |-> TRUE,
                       metadata |-> disk.metadata,
                       encoders |-> modelEncoders(disk.metadata.encoders),
                       model |-> IF disk.metadata.isOneVsRest THEN NoModel ELSE disk.model,
                       oneVsRestModels |->
                         IF disk.metadata.isOneVsRest
                           THEN loadOvrModels(disk.metadata.classes, disk.models) ELSE <<>>,
                       trainedRecords |-> disk.trainedRecords,
                       trainedX |-> disk.trainedX]
  /\ UNCHANGED <<tDataset, tEncoders, tClasses, tIsMultiClass, tModel, tIsOneVsRest,
                 tOvrModels, tTrainedAt, tMetrics, tError, trainedRecords, trainedX,
                 tFresh, disk, mIn, mOut,
                 tConfig, xgbScore, tTargetNormalization, trainedY,
                 tPredictions, mPred, trainedConfig, cvFolds>>
  /\ UNCHANGED <<encVars, sizeVars, estVars, faVars, savePc, saveQueue>>

\* model.transform(record)
Transform(record) ==
  /\ mModel.loaded
  /\ mIn' = <<record>>
  /\ mOut' = modelTransform(mModel, record)
  /\ UNCHANGED <<tDataset, tEncoders, tClasses, tIsMultiClass, tModel, tIsOneVsRest,
                 tOvrModels, tTrainedAt, tMetrics, tError, trainedRecords, trainedX,
                 tFresh, disk, mModel, mError,
                 tConfig, xgbScore, tTargetNormalization, trainedY,
                 tPredictions, mPred, trainedConfig, cvFolds>>
  /\ UNCHANGED <<encVars, sizeVars, estVars, faVars, savePc, saveQueue>>

\* model.predictWithProbabilities(record): the score the stored tree models give the
\* vector transform(record) builds is xgbScore
predictWithProbabilities(model, score) ==
  IF model.metadata.taskType = "classification"
    THEN IF model.metadata.isOneVsRest
           THEN modelPredictOvr(model.oneVsRestModels, model.metadata.classes, score.ovr)
         ELSE IF ~model.model.present THEN [taskType |-> "error", error |-> "Model not loaded"]
         ELSE predictSingleModel(model.metadata.classes, score.single)
  ELSE IF ~model.model.present THEN [taskType |-> "error", error |-> "Model not loaded"]
  ELSE predictRegression(model.metadata.targetNormalization, score.single)

\* model.predict(record): the class index, for classification models only
Predict ==
  /\ mModel.loaded
  /\ mPred' = [call |-> "predict",
                result |-> IF mModel.metadata.taskType # "classification"
                             THEN [taskType |-> "error",
                                   error |-> "predict() is only available for classification"]
                             ELSE predictWithProbabilities(mModel, xgbScore)]
  /\ UNCHANGED <<tDataset, tEncoders, tClasses, tIsMultiClass, tModel, tIsOneVsRest,
                 tOvrModels, tTrainedAt, tMetrics, tError, trainedRecords, trainedX,
                 tFresh, disk, mModel, mError, mIn, mOut,
                 tConfig, xgbScore, tTargetNormalization, trainedY, tPredictions,
                 trainedConfig, cvFolds>>
  /\ UNCHANGED <<encVars, sizeVars, estVars, faVars, savePc, saveQueue>>

\* model.predictValue(record): the value, for regression models only
PredictValue ==
  /\ mModel.loaded
  /\ mPred' = [call |-> "predictValue",
                result |-> IF mModel.metadata.taskType # "regression"
                             THEN [taskType |-> "error",
                                   error |-> "predictValue() is only available for regression"]
                             ELSE predictWithProbabilities(mModel, xgbScore)]
  /\ UNCHANGED <<tDataset, tEncoders, tClasses, tIsMultiClass, tModel, tIsOneVsRest,
                 tOvrModels, tTrainedAt, tMetrics, tError, trainedRecords, trainedX,
                 tFresh, disk, mModel, mError, mIn, mOut,
                 tConfig, xgbScore, tTargetNormalization, trainedY, tPredictions,
                 trainedConfig, cvFolds>>
  /\ UNCHANGED <<encVars, sizeVars, estVars, faVars, savePc, saveQueue>>

Next ==
  \/ \E data \in SeqsUpTo(TrainerRecords, MaxRows) : LoadRaw(data)
  \/ \E r \in TestRatios, order \in ShuffleOrders(Len(tDataset)), fits \in 0..MaxClasses :
       Train(RatioConfig(r), order, fits, TRUE, 0)
  \/ Save
  \/ Load
  \/ \E record \in TrainerRecords : Transform(record)

Spec == Init /\ [][Next]_vars

(***************************************************************************)
(* The same life cycle for every task type and objective, on datasets that *)
(* differ in their targets only, with predictions.                         *)
(***************************************************************************)
OvrConfig        == [taskType |-> "classification", objective |-> ""]
LogisticConfig   == [taskType |-> "classification", objective |-> "binary:logistic"]
SoftprobConfig   == [taskType |-> "classification", objective |-> "multi:softprob"]
RegressionConfig == [taskType |-> "regression", objective |-> ""]

\* raw scores of the tree models, in percent: all equal, or one class ahead
TieScore == [single |-> 50, ovr |-> [l \in ScoreLabels |-> 50]]
ScoreFor(c) ==
  [single |-> IF c = s100 THEN 75 ELSE 25,
   ovr |-> [l \in ScoreLabels |-> IF l = c THEN 75 ELSE 25]]
TaskScores == {TieScore, ScoreFor(s100), ScoreFor(sX)}

TaskRecord(t) ==
  [color |-> StrV(sA), size |-> StrV(sB), price |-> NumV(3), qty |-> NumV(7), sold |-> t]

TaskDatasets ==
  { <<TaskRecord(NumV(100)), TaskRecord(NumV(200)), TaskRecord(NumV(300))>>,
    <<TaskRecord(NumV(200)), TaskRecord(NumV(300)), TaskRecord(StrV(sX))>>,
    <<TaskRecord(NumV(100)), TaskRecord(NumV(300))>>,
    <<TaskRecord(NumV(200)), TaskRecord(StrV(s200))>>,
    <<TaskRecord(NumV(100)), TaskRecord(NullV)>> }

\* every configuration with the scores that make a difference to it
TaskInit ==
  /\ EncInit /\ SizeInit /\ EstInit /\ FaInit /\ TrStart
  /\ \/ tConfig \in {OvrConfig, SoftprobConfig, RegressionConfig} /\ xgbScore \in TaskScores
     \/ tConfig = LogisticConfig /\ xgbScore = TieScore

TaskNext ==
  \/ \E data \in TaskDatasets : LoadRaw(data)
  \/ \E fits \in 0..MaxClasses : Train(NoConfig, [i \in 1..Len(tDataset) |-> i], fits, TRUE, 0)
  \/ Save
  \/ Load
  \/ Predict
  \/ PredictValue

TaskSpec == TaskInit /\ [][TaskNext]_vars

(***************************************************************************)
(* The same Trainer and Model over records that lack a declared feature or *)
(* the target.                                                             *)
(***************************************************************************)
CompleteRecord ==
  [color |-> StrV(sA), size |-> StrV(sB), price |-> NumV(3), qty |-> NumV(7), sold |-> StrV(sYes)]

\* record without the key `feature` (delete record[feature])
Without(record, feature) == [k \in DOMAIN record \ {feature} |-> record[k]]

IncompleteRecords ==
  { CompleteRecord,
    [Without(CompleteRecord, "color") EXCEPT !.sold = StrV(sNo)],
    [Without(CompleteRecord, "qty") EXCEPT !.sold = StrV(sNo)],
    Without(CompleteRecord, "sold") }

IncompleteInit == Init

IncompleteNext ==
  \/ \E data \in SeqsUpTo(IncompleteRecords, MaxRows) : LoadRaw(data)
  \/ \E fits \in 0..1 : Train(NoConfig, [i \in 1..Len(tDataset) |-> i], fits, TRUE, 0)
  \/ Save
  \/ Load
  \/ \E record \in IncompleteRecords : Transform(record)

IncompleteSpec == IncompleteInit /\ [][IncompleteNext]_vars

(***************************************************************************)
(* save() one write at a time, with Model.load reading the directory at    *)
(* any point of it.                                                        *)
(***************************************************************************)
SaveInit ==
  /\ EncInit /\ SizeInit /\ EstInit /\ FaInit /\ TrStart
  /\ tConfig = OvrConfig /\ xgbScore = TieScore

SaveNext ==
  \/ \E data \in TaskDatasets : LoadRaw(data)
  \/ \E fits \in 0..MaxClasses :
       Train(NoConfig, [i \in 1..Len(tDataset) |-> i], fits, TRUE, 0)
  \/ SaveBegin
  \/ SaveStep
  \/ SaveInterrupted
  \/ Load

SaveSpec == SaveInit /\ [][SaveNext]_vars

(***************************************************************************)
(* train() under the TrainingConfigs a caller can pass: the train/test     *)
(* split, the shuffle, the seed and the cross-validation.                  *)
(***************************************************************************)
SplitRecord(price, sold) ==
  [color |-> StrV(sA), size |-> StrV(sB), price |-> NumV(price), qty |-> NumV(7),
   sold |-> StrV(sold)]

SplitDatasets ==
  { <<SplitRecord(1, sYes), SplitRecord(2, sNo), SplitRecord(3, sYes)>>,
    <<SplitRecord(2, sNo), SplitRecord(1, sYes)>> }

\* two of the orders Math.random can leave n records in: as loaded, and reversed
SplitOrders(n) == {[i \in 1..n |-> i], [i \in 1..n |-> n + 1 - i]}

\* train(), and train({...}) with the fields named; the last one is the README's
\* configuration with 3 folds
SplitConfigs ==
  { NoConfig,
    TrainingConfig(NumV(0), UndefV, UndefV, UndefV, UndefV),
    TrainingConfig(NumV(50), UndefV, UndefV, UndefV, UndefV),
    TrainingConfig(UndefV, FalseV, UndefV, UndefV, UndefV),
    TrainingConfig(UndefV, TrueV, NumV(42), UndefV, UndefV),
    TrainingConfig(UndefV, UndefV, UndefV, TrueV, UndefV),
    TrainingConfig(UndefV, FalseV, UndefV, TrueV, NumV(2)),
    TrainingConfig(NumV(20), TrueV, NumV(42), TrueV, NumV(3)) }

SplitInit == Init

SplitNext ==
  \/ \E data \in SplitDatasets : LoadRaw(data)
  \/ \E config \in SplitConfigs, order \in SplitOrders(Len(tDataset)),
        fits \in 0..1, evals \in BOOLEAN, cvFits \in 0..DefaultFolds :
       Train(config, order, fits, evals, cvFits)
  \/ Save

SplitSpec == SplitInit /\ [][SplitNext]_vars

(***************************************************************************)
(* Claims                                                                  *)
(***************************************************************************)

\* ---- C3 (EncSpec) ----
\* positions of a vector that hold the value x
PositionsOf(vec, x) == {i \in DOMAIN vec : vec[i] = x}

\* C3: every encode() call on a constructed encoder returns a vector of length
\* bucketCount holding exactly one 1 and 0 everywhere else.
C3_OneHot ==
  lastIn # NoCall =>
    /\ DOMAIN lastOut = 1 .. encoder.bucketCount
    /\ Cardinality(PositionsOf(lastOut, 1)) = 1
    /\ Cardinality(PositionsOf(lastOut, 0)) = encoder.bucketCount - 1

C3_Witness ==
  /\ encoder.bucketCount = 10 /\ encoder.hashSeed = DefaultHashSeed
  /\ lastIn = NaNV
  /\ lastOut[2] = 1

\* ---- C4 (EncSpec) ----
\* t is s without its leading and trailing white space, stated on positions
IsTrimmedFormOf(t, s) ==
  \E i \in 1 .. Len(s) : \E j \in i .. Len(s) :
    /\ t = SubSeq(s, i, j)
    /\ s[i] \notin WhiteSpace /\ s[j] \notin WhiteSpace
    /\ \A m \in 1 .. (i - 1) : s[m] \in WhiteSpace
    /\ \A m \in (j + 1) .. Len(s) : s[m] \in WhiteSpace

\* two successive inputs of one encoder that the claim says are encoded alike
EncodedAlike(a, b) ==
  \/ a.t = "string" /\ b.t = "string" /\ IsTrimmedFormOf(b.s, a.s)
  \/ a.t = "string" /\ b.t = "string" /\ IsTrimmedFormOf(a.s, b.s)
  \/ a \in {NullV, UndefV} /\ b \in {NullV, UndefV}
  \/ a = NumV(5) /\ b = StrV(sFive)
  \/ a = StrV(sFive) /\ b = NumV(5)

\* C4: a string and its white-space-trimmed form, null and undefined, and a number
\* and the string of its digits get the same vector from one encoder.
C4_NormalizationEquivalence ==
  (prevIn # NoCall /\ EncodedAlike(prevIn, lastIn)) => prevOut = lastOut

C4_Witness ==
  /\ encoder.bucketCount = ExampleBucketCount
  /\ prevIn = StrV(<<32>> \o sTest \o <<32>>) /\ lastIn = StrV(sTest)
  /\ prevOut = lastOut

\* ---- C5 (EncSpec) ----
SentinelPairs == {<<TrueV, FalseV>>, <<NaNV, InfV>>, <<InfV, NegInfV>>}

\* C5: on an encoder with at least two buckets (one bucket leaves a single vector),
\* true and false, NaN and Infinity, Infinity and -Infinity get different vectors.
C5_SentinelsDiffer ==
  (encoder.bucketCount >= 2 /\ <<prevIn, lastIn>> \in SentinelPairs) => prevOut # lastOut

\* ---- C6 (SizeSpec) ----
\* the rule as the claim states it
SizingRule(k) == IF k <= 1 THEN 1 ELSE IF k <= 1000 THEN k * k ELSE 20 * k

EstCalled == estP # ProbNone

FaCalled == faResult # NoAnalysis

\* the inputs the claim says are refused
FaInvalidInput ==
  \/ Len(faData) = 0
  \/ Len(faCat) = 0 /\ Len(faNum) = 0
  \/ /\ Len(faData) > 0
     /\ \/ \E i \in DOMAIN faCat : faCat[i] \notin DOMAIN faData[1]
        \/ \E i \in DOMAIN faNum : faNum[i] \notin DOMAIN faData[1]
        \/ faTarget # NoTarget /\ faTarget \notin DOMAIN faData[1]
  \/ \E i \in DOMAIN faCat : \E j \in DOMAIN faNum : faCat[i] = faNum[j]

\* C8: analyzeFeatures throws and returns nothing when the data is empty, both lists
\* are empty, a declared name is no key of the first record, or a name is in both lists.
C8_ValidationErrors ==
  (FaCalled /\ FaInvalidInput) =>
    /\ ~faResult.ok /\ faResult.error # "none"
    /\ faResult.categoricalSpecs = <<>> /\ faResult.totalRows = 0

C8_Witness ==
  /\ FaCalled /\ ~faResult.ok
  /\ faCat = <<"color", "price">> /\ faNum = <<"price">>
  /\ Len(faData) = 2 /\ {"color", "price"} \subseteq DOMAIN faData[1]

\* ---- C9 (FaSpec) ----
\* the strings HashEncoder hashes for the column of a feature
NormalizedColumn(data, feature) ==
  {normalizeValue(RecGet(data[i], feature)) : i \in DOMAIN data}

\* C9: for each categorical feature the k analyzeFeatures reports is the number of
\* distinct strings HashEncoder's normalization produces over the column.
C9_CardinalityAgrees ==
  (FaCalled /\ faResult.ok) =>
    \A f \in Range(faCat) :
      faResult.categoricalSpecs[f].k = Cardinality(NormalizedColumn(faData, f))

\* ---- C1 (Spec) ----
\* C1: after train() and save(), Model.load(dir).transform(r) equals, for every
\* record r trained on, the vector Trainer.transformRecords built for r.
C1_RoundTrip ==
  (mModel.loaded /\ mIn # <<>>) =>
    \A i \in DOMAIN mModel.trainedRecords :
      mModel.trainedRecords[i] = mIn[1] => mOut = mModel.trainedX[i]

\* ---- C10 (Spec) ----
\* the numeric entry under the two readings of "numeric" the claim allows
NumericEntry(value, coerceStrings) ==
  IF value.t \in {"number", "NaN", "Infinity", "-Infinity"} THEN value
  ELSE IF coerceStrings /\ value.t = "string" /\ IsDigits(Trim(value.s))
    THEN NumV(DigitsValue(Trim(value.s)))
  ELSE NumV(0)

\* the layout of the claim: bucket vectors in declared order, then numeric entries
LayoutVector(encoders, record, coerceStrings) ==
  ConcatAll([i \in DOMAIN categoricalFeatures |->
               VectorOf(encode(MapGet(encoders, categoricalFeatures[i]),
                               RecGet(record, categoricalFeatures[i])))])
    \o [i \in DOMAIN numericFeatures |->
          NumericEntry(RecGet(record, numericFeatures[i]), coerceStrings)]

RECURSIVE SumBucketCounts(_)
SumBucketCounts(encoders) ==
  IF encoders = <<>> THEN 0
  ELSE Head(encoders)[2].bucketCount + SumBucketCounts(Tail(encoders))

LayoutHolds(coerceStrings) ==
  /\ \A i \in DOMAIN mModel.trainedRecords :
       /\ mModel.trainedX[i] =
            LayoutVector(mModel.encoders, mModel.trainedRecords[i], coerceStrings)
       /\ Len(mModel.trainedX[i]) =
            SumBucketCounts(mModel.encoders) + Len(numericFeatures)
  /\ mIn # <<>> =>
       /\ mOut = LayoutVector(mModel.encoders, mIn[1], coerceStrings)
       /\ Len(mOut) = SumBucketCounts(mModel.encoders) + Len(numericFeatures)

\* C10: the vectors of Trainer.transformRecords and of Model.transform are the bucket
\* vectors of the categorical features in declared order followed by one entry per
\* numeric feature, the raw numeric value or 0 when missing or non-numeric, under
\* one reading of "numeric" for both.
C10_Layout ==
  mModel.loaded => (LayoutHolds(FALSE) \/ LayoutHolds(TRUE))

\* ---- C11 (TaskSpec) ----
\* the label of a record's target and the sorted list of the labels of a dataset
TargetLabel(record) == ToStringJS(RecGet(record, target))
SortedLabels(data) ==
  SortStrings({TargetLabel(data[i]) :
                 i \in {j \in DOMAIN data : ~IsNullish(RecGet(data[j], target))}})
\* the position of a label in a list without repetitions, from 0
PositionIn(list, label) == Cardinality({j \in DOMAIN list : StrLess(list[j], label)})
\* the numeric targets of a dataset
TargetNumbers(data) == {ToNumber(RecGet(data[i], target)).n : i \in DOMAIN data}
MinOf(S) == CHOOSE m \in S : \A v \in S : m <= v
MaxOf(S) == CHOOSE m \in S : \A v \in S : v <= m
\* a successful train() was the last call on the Trainer
JustTrained == tFresh /\ tTrainedAt /\ tError = "none"

ClassificationTargets ==
  /\ JustTrained =>
       /\ tClasses = SortedLabels(tDataset)
       /\ \A i \in DOMAIN trainedRecords :
            /\ TargetLabel(trainedRecords[i]) \in Range(tClasses)
            /\ trainedY[i] = PositionIn(tClasses, TargetLabel(trainedRecords[i]))
  /\ (tDataset # NoData /\ \E i \in DOMAIN tDataset : TargetLabel(tDataset[i]) \notin Range(tClasses))
       => ~tFresh /\ tError # "fit failed"
  /\ tError = "Unknown class" =>
       \E i \in DOMAIN tDataset : TargetLabel(tDataset[i]) \notin Range(tClasses)

RegressionTargets ==
  JustTrained =>
    LET lo == MinOf(TargetNumbers(tDataset))
        hi == MaxOf(TargetNumbers(tDataset))
    IN  /\ tTargetNormalization = [present |-> TRUE, min |-> lo, max |-> hi]
        /\ \A i \in DOMAIN trainedRecords :
             IF hi = lo THEN trainedY[i] = Half
             ELSE /\ trainedY[i].num = ToNumber(RecGet(trainedRecords[i], target)).n - lo
                  /\ trainedY[i].den = hi - lo
                  /\ 0 <= trainedY[i].num /\ trainedY[i].num <= trainedY[i].den

TrainPartX == SubSeq(trainedX, 1, splitIndex(Len(trainedRecords), 0))
TrainPartY == SubSeq(trainedY, 1, splitIndex(Len(trainedRecords), 0))
\* the condition of the claim for the One-vs-Rest path
OvrExpected ==
  /\ tConfig.taskType = "classification"
  /\ Len(SortedLabels(tDataset)) > 2
  /\ tConfig.objective \notin {"multi:softprob", "multi:softmax"}

\* C12: a successful train() took the One-vs-Rest path (isOneVsRest true, one model per
\* class fitted on the training part) exactly when the task is classification, the
\* loaded data has more than 2 class labels and the objective is absent or does not
\* start with "multi:"; otherwise it fitted the single model and isOneVsRest is false.
C12_Dispatch ==
  JustTrained =>
    IF OvrExpected
      THEN /\ tIsOneVsRest
           /\ \A c \in Range(tClasses) :
                /\ MapHas(tOvrModels, c)
                /\ MapGet(tOvrModels, c).fitted
                /\ MapGet(tOvrModels, c).X = TrainPartX
      ELSE /\ ~tIsOneVsRest
           /\ tModel.fitted /\ tModel.X = TrainPartX /\ tModel.y = TrainPartY

C12_Witness ==
  JustTrained /\ tIsOneVsRest /\ tConfig.objective = "" /\ Len(tClasses) > 2

\* ---- C13 (TaskSpec) ----
\* the keys of a Map kept as its entries
Keys(entries) == {entries[i][1] : i \in DOMAIN entries}

\* C13: after a successful train() on the One-vs-Rest path the Trainer stores exactly
\* one binary model per class label of the loaded data, keyed by those labels, and the
\* metadata a save() that follows persists has isOneVsRest true, whatever data earlier
\* loadRaw()/train() calls used.
C13_ExactlyNModels ==
  (JustTrained /\ OvrExpected) =>
    /\ Len(tOvrModels) = Len(tClasses)
    /\ Keys(tOvrModels) = Range(tClasses)
    /\ disk.exists => disk.metadata.isOneVsRest

\* ---- C14 (TaskSpec) ----
\* the class the claim selects among the stored classifiers: highest raw score, the
\* earliest in sorted order among equals
HighestScoring(models) ==
  CHOOSE c \in Keys(models) :
    \A d \in Keys(models) \ {c} :
      \/ xgbScore.ovr[d] < xgbScore.ovr[c]
      \/ xgbScore.ovr[d] = xgbScore.ovr[c] /\ StrLess(c, d)

SelectsHighest(prediction, models, classes) ==
  /\ prediction.classLabel = HighestScoring(models)
  /\ prediction.classIndex = PositionIn(classes, HighestScoring(models))
  /\ 0 <= prediction.classIndex /\ prediction.classIndex < Len(classes)
  /\ classes[prediction.classIndex + 1] = HighestScoring(models)

TrainerSelectsHighest ==
  (JustTrained /\ tIsOneVsRest) =>
    \A i \in DOMAIN tPredictions : SelectsHighest(tPredictions[i], tOvrModels, tClasses)

ModelSelectsHighest ==
  (mPred.call = "predict" /\ mModel.metadata.isOneVsRest) =>
    SelectsHighest(mPred.result, mModel.oneVsRestModels, mModel.metadata.classes)

\* C14: One-vs-Rest inference, in the evaluation of train() and in Model.predict,
\* returns the class with the highest raw score among the stored classifiers, the
\* earliest of the sorted class list among equals, and its index in that list.
C14_OvrInference == TrainerSelectsHighest /\ ModelSelectsHighest

\* ---- C15 (TaskSpec) ----
\* the prediction of the claim for raw score p (percent) and the sorted class list
Thresholded(prediction, classes, p) ==
  /\ prediction.classIndex = (IF p > 50 THEN 1 ELSE 0)
  /\ prediction.probabilities = <<100 - p, p>>
  /\ prediction.classIndex < Len(classes) =>
       prediction.classLabel = classes[prediction.classIndex + 1]

SoftprobPredicted ==
  /\ mPred.call = "predict" /\ mPred.result.taskType = "classification"
  /\ tConfig = SoftprobConfig /\ ~mModel.metadata.isOneVsRest
  /\ mModel.metadata.numClasses = 3

\* C16: for a three-class model trained with 'multi:softprob', Model.predict returns
\* 0, 1 or 2, and each of the three is the result for some raw score of the model.
C16_ThreeClassIndices ==
  SoftprobPredicted =>
    /\ mPred.result.classIndex \in 0..2
    /\ \A k \in 0..2 : \E p \in 0..100 :
         predictWithProbabilities(mModel, [single |-> p, ovr |-> xgbScore.ovr]).classIndex = k

\* ---- C17 (TaskSpec) ----
\* C17: the value Model.predictValue returns is raw * (max - min) + min with the
\* persisted bounds when max > min, and the raw output when the range is zero or the
\* bounds are absent (raw outputs are in percent, values in hundredths).
C17_Denormalization ==
  (mPred.call = "predictValue" /\ mPred.result.taskType = "regression") =>
    LET bounds == mModel.metadata.targetNormalization
    IN  IF bounds.present /\ bounds.max > bounds.min
          THEN mPred.result.value = xgbScore.single * (bounds.max - bounds.min) + 100 * bounds.min
          ELSE mPred.result.value = xgbScore.single

C17_Witness ==
  /\ mPred.call = "predictValue" /\ mPred.result.taskType = "regression"
  /\ mModel.metadata.targetNormalization = [present |-> TRUE, min |-> 100, max |-> 300]
  /\ xgbScore.single = 50
  /\ mPred.result.value = 200 * 100

\* ---- C18 (TaskSpec) ----
NotTrainedErrors == {"No trained model to save", "Model not trained yet"}

\* C18: a save() called while no train() has completed successfully on the Trainer
\* fails with a not-trained error, whatever the Trainer went through before.
C18_SaveBeforeTrain ==
  [][(Save /\ ~tTrainedAt) => tError' \in NotTrainedErrors]_vars

C18_Witness ==
  /\ ~tTrainedAt /\ tError = "Model not trained yet"
  /\ tModel.present \/ Len(tOvrModels) > 0

\* ---- C19 (TaskSpec) ----
\* save() returned without an error (nothing is called on the Trainer after it)
Saved == disk.exists /\ tError = "none"

\* C19: a successful save leaves metadata.json with the full metadata, encoders.json
\* with one {bucketCount, hashSeed, featureName} per categorical feature in declared
\* order, and models/<class>.json for every class label (One-vs-Rest) or model.json.
C19_SavedFiles ==
  Saved =>
    /\ disk.metadata = getModelMetadata(tEncoders, tClasses, tIsOneVsRest, tMetrics,
                                        tTargetNormalization)
    /\ disk.encodersWritten
    /\ Len(disk.encoders) = Len(Dedup(categoricalFeatures))
    /\ \A i \in DOMAIN disk.encoders :
         /\ disk.encoders[i].featureName = Dedup(categoricalFeatures)[i]
         /\ disk.encoders[i] = getConfig(MapGet(tEncoders, disk.encoders[i].featureName))
    /\ IF disk.metadata.isOneVsRest
         THEN \A c \in Range(disk.metadata.classes) : MapHas(disk.models, c)
         ELSE disk.model.present

\* ---- C20 (TaskSpec) ----
\* C20: Model.load fails when the directory, metadata.json, model.json (not
\* One-vs-Rest) or the models/<class>.json of any class of metadata.classes
\* (One-vs-Rest) is missing, so a loaded One-vs-Rest model holds one model per class.
C20_LoadNeedsEveryFile ==
  mModel.loaded =>
    /\ disk.exists /\ disk.metadata.present
    /\ IF disk.metadata.isOneVsRest
         THEN /\ \A c \in Range(disk.metadata.classes) : MapHas(disk.models, c)
              /\ Keys(mModel.oneVsRestModels) = Range(disk.metadata.classes)
              /\ Len(mModel.oneVsRestModels) = Len(disk.metadata.classes)
         ELSE disk.model.present

\* ---- C21 (IncompleteSpec) ----
\* where the bucket vector of the i-th categorical feature lies in a feature vector
SlotOf(vector, encoders, i) ==
  LET before == SumBucketCounts([j \in 1..(i - 1) |->
                                   <<categoricalFeatures[j],
                                     MapGet(encoders, categoricalFeatures[j])>>])
  IN  SubSeq(vector, before + 1,
             before + MapGet(encoders, categoricalFeatures[i]).bucketCount)

MissingCategorical(record) ==
  {i \in DOMAIN categoricalFeatures : categoricalFeatures[i] \notin DOMAIN record}

TransformedIncomplete ==
  mModel.loaded /\ mIn # <<>> /\ Cardinality(MissingCategorical(mIn[1])) = 1

\* C21: for a record lacking one declared categorical feature Model.transform returns
\* a full-length vector whose slot for that feature is all 0, the other slots being
\* as for a complete record.
C21_MissingSlotAllZero ==
  TransformedIncomplete =>
    /\ Len(mOut) = SumBucketCounts(mModel.encoders) + Len(numericFeatures)
    /\ \A i \in DOMAIN categoricalFeatures :
         IF i \in MissingCategorical(mIn[1])
           THEN \A j \in DOMAIN SlotOf(mOut, mModel.encoders, i) :
                  SlotOf(mOut, mModel.encoders, i)[j] = NumV(0)
           ELSE SlotOf(mOut, mModel.encoders, i) =
                  SlotOf(LayoutVector(mModel.encoders, mIn[1], TRUE), mModel.encoders, i)

\* ---- C22 (IncompleteSpec) ----
RequiredFeatures == categoricalFeatures \o numericFeatures \o <<target>>

LacksRequired(record) == \E i \in DOMAIN RequiredFeatures : RequiredFeatures[i] \notin DOMAIN record

\* C22: loadRaw() followed by train() fails whenever any record of the data, the
\* first or a later one, lacks a declared categorical feature, a declared numeric
\* feature or the target.
C22_NoSilentSkip ==
  JustTrained => \A i \in DOMAIN tDataset : ~LacksRequired(tDataset[i])

\* ---- C23 (SplitSpec) ----
\* b holds the elements of a, each as often, in some order
IsPermutation(a, b) ==
  /\ Len(a) = Len(b)
  /\ \E p \in ShuffleOrders(Len(a)) : \A i \in DOMAIN a : a[i] = b[p[i]]

\* the testRatio the caller passed, in percent
PassedTestRatio ==
  IF trainedConfig.testRatio.t = "number" THEN trainedConfig.testRatio.n ELSE DefaultTestRatio

\* C23: the train set and the test set hold every record of the loaded dataset
\* exactly once, and the train set has floor(n * (1 - testRatio)) records for the
\* testRatio the caller passed (0.2 when none is passed).
C23_TrainTestSplit ==
  JustTrained =>
    /\ IsPermutation(trainedRecords, tDataset)
    /\ Len(trainedX) = Len(tDataset)
    /\ Len(tModel.X) = (Len(tDataset) * (100 - PassedTestRatio)) \div 100

\* ---- C24 (SplitSpec) ----
CrossValidated == JustTrained /\ usesCrossValidation(trainedConfig)

\* the nFolds the caller passed (5 when none is passed)
PassedFolds ==
  IF trainedConfig.nFolds.t = "number" THEN trainedConfig.nFolds.n ELSE DefaultFolds

\* the records of data at the positions of S, in order
RECURSIVE AtPositions(_, _, _)
AtPositions(data, S, i) ==
  IF i > Len(data) THEN <<>>
  ELSE (IF i \in S THEN <<data[i]>> ELSE <<>>) \o AtPositions(data, S, i + 1)

FoldPositions(fold) == (fold.testStart + 1)..fold.testEnd

\* C24: with nFolds = k the k test folds are contiguous slices of the dataset,
\* pairwise disjoint and covering every record, each temporary model is fitted on
\* exactly the records outside its fold, and after a successful train() with
\* useCrossValidation the metrics save() persists hold exactly k
\* crossValidationScores.
C24_CrossValidationFolds ==
  CrossValidated =>
    /\ Len(cvFolds) = PassedFolds
    /\ \A i \in DOMAIN cvFolds :
         /\ FoldPositions(cvFolds[i]) \subseteq DOMAIN tDataset
         /\ cvFolds[i].testData = AtPositions(tDataset, FoldPositions(cvFolds[i]), 1)
         /\ cvFolds[i].trainData =
              AtPositions(tDataset, DOMAIN tDataset \ FoldPositions(cvFolds[i]), 1)
    /\ \A j \in DOMAIN tDataset :
         Cardinality({i \in DOMAIN cvFolds : j \in FoldPositions(cvFolds[i])}) = 1
    /\ tMetrics.hasCrossValidationScores
    /\ Len(tMetrics.crossValidationScores) = PassedFolds
    /\ Saved =>
         /\ disk.metadata.metrics.hasCrossValidationScores
         /\ Len(disk.metadata.metrics.crossValidationScores) = PassedFolds

\* a saved model whose train() cut 2 folds over 3 records
C24_Witness ==
  /\ CrossValidated /\ Saved
  /\ Len(tDataset) = 3 /\ PassedFolds = 2
  /\ Len(cvFolds[1].testData) = 1 /\ Len(cvFolds[2].testData) = 2

\* ---- C25 (SplitSpec) ----
SeededShuffle(config) == shuffleEnabled(config) /\ config.seed.t = "number"

\* C25: two train() calls over the same loaded data with shuffle enabled and the
\* same seed (and the same testRatio) use the same train/test split.
C25_SeedFixesSplit ==
  [][(/\ JustTrained /\ JustTrained'
      /\ SeededShuffle(trainedConfig) /\ SeededShuffle(trainedConfig')
      /\ trainedConfig'.seed = trainedConfig.seed
      /\ trainedConfig'.testRatio = trainedConfig.testRatio)
     => trainedRecords' = trainedRecords]_vars

\* ---- C27 (SplitSpec) ----
\* C27: when train() shuffles the data for the train/test split, the folds of
\* performCrossValidation are slices of that shuffled order.
C27_FoldsFromShuffledOrder ==
  CrossValidated =>
    \A i \in DOMAIN cvFolds :
      cvFolds[i].testData = AtPositions(trainedRecords, FoldPositions(cvFolds[i]), 1)

\* ---- C26 (TaskSpec) ----
\* the tree models in the directory
PersistedArtifacts ==
  (IF disk.model.present THEN {disk.model} ELSE {})
    \cup {disk.models[i][2] : i \in DOMAIN disk.models}

\* the records the last successful train() fitted on
TrainPartRecords ==
  SubSeq(trainedRecords, 1,
         splitIndex(Len(trainedRecords), NumberOr0(trainedConfig.testRatio)))

\* save() succeeded and every tree model it wrote was fitted by the last successful
\* train()
SavedLastTrained ==
  /\ Saved /\ disk.metadata.present
  /\ PersistedArtifacts # {}
  /\ \A a \in PersistedArtifacts : a.fitted /\ a.X = TrainPartX /\ a.X # <<>>

\* C26: the encoder configurations, class list and normalization bounds save()
\* persists are the ones that encoded the training data of the tree models it
\* persists: they rebuild the feature vectors and the targets of that training.
C26_PersistedMatchesTraining ==
  SavedLastTrained =>
    /\ transformRecords(modelEncoders(disk.metadata.encoders), TrainPartRecords) = TrainPartX
    /\ LET y == transformTargets(disk.metadata.classes, disk.metadata.targetNormalization,
                                 TrainPartRecords)
       IN  y.ok /\ y.y = TrainPartY

\* ---- C29 (TaskSpec) ----
\* what a train() call throws after its targets were transformed
TrainFailures == {"fit failed", "evaluation failed", "cross-validation failed"}

\* C29: a train() call that throws leaves the stored single model, the stored
\* One-vs-Rest models, isOneVsRest, the training metrics and trainedAt as they were
\* before the call.
C29_FailedTrainChangesNothing ==
  [][tError' \in TrainFailures =>
       UNCHANGED <<tModel, tOvrModels, tIsOneVsRest, tMetrics, tTrainedAt>>]_vars

\* ---- C30 (TaskSpec) ----
\* C30: a save() that fails because no train() call has completed leaves no
\* directory and no model.json, models/<class>.json or encoders.json behind.
C30_FailedSaveWritesNothing ==
  tError \in NotTrainedErrors =>
    /\ ~disk.exists
    /\ ~disk.model.present /\ disk.models = <<>> /\ ~disk.encodersWritten

\* ---- C28 (SaveSpec) ----
\* every tree model save() has to write is in the directory
ArtifactsWritten ==
  IF tIsOneVsRest
    THEN \A i \in DOMAIN tOvrModels :
           /\ MapHas(disk.models, tOvrModels[i][1])
           /\ MapGet(disk.models, tOvrModels[i][1]) = tOvrModels[i][2]
    ELSE tModel.present => disk.model = tModel

\* C28: at every point of a save() into a directory that held no model before,
\* metadata.json exists only if all tree artifacts and encoders.json of that save
\* have been written.
C28_MetadataLast ==
  (disk.exists /\ disk.metadata.present) =>
    /\ ArtifactsWritten
    /\ disk.encodersWritten
    /\ disk.encoders = [i \in DOMAIN tEncoders |-> getConfig(tEncoders[i][2])]

\* a One-vs-Rest save() that wrote its three models, encoders.json and metadata.json
C28_Witness ==
  /\ savePc = "idle" /\ tError = "none" /\ disk.metadata.present
  /\ tIsOneVsRest /\ Len(tOvrModels) = 3 /\ Len(disk.models) = 3

====
